---- MODULE Spec2Model ----
(***************************************************************************)
(* Model of the object-detection frontend: the upload component            *)
(* (ImageUpload.tsx), the results component (DetectionResults, in          *)
(* ObjectSelection.tsx) and the interactive overlay                        *)
(* (InteractiveImageOverlay.tsx).                                          *)
(*                                                                         *)
(* A nullable value is a sequence: <<>> is null/undefined, <<v>> is v.     *)
(* A real number produced by a division is an exact fraction [n, d].       *)
(***************************************************************************)
EXTENDS Integers, Sequences, FiniteSets, TLC

VARIABLES
    \* ImageUpload.tsx
    imageData,            \* useState<ImageData | null>
    isLoading,            \* useState(false)
    error,                \* useState<string | null>
    isDetecting,          \* useState(false)
    detectionResults,     \* useState<DetectionResult | null>
    detectionError,       \* useState<string | null>
    objects,              \* detectionOptions.objects
    loadingFile,          \* the file processFile awaits getImageDimensions for
    pending,              \* number of fetch() calls not yet settled
    \* DetectionResults (ObjectSelection.tsx)
    selectedDetectionId,  \* useState<number | null>
    \* InteractiveImageOverlay.tsx
    hoveredDetection,     \* useState<number | null>
    tooltipData,          \* useState<{detection, x, y} | null>
    coordinatePopup,      \* useState<CoordinatePopupData | null>
    coordinateFormat,     \* useState<CoordinateFormat>('pixels')
    rulerMode,            \* useState(false)
    rulerPoints,          \* useState<RulerPoint[]>([])
    mousePosition,        \* useState<{x, y} | null>
    copiedCoordinate,     \* useState<string | null>
    writes,               \* labels of the clipboard writes not yet settled
    timers,               \* labels of the copies whose setTimeout is pending
    exactDimensions,      \* the exactDimensions prop (default false)
    displayDimensions,    \* useState({ width: 0, height: 0 })
    scaleFactors,         \* useState({ x: 1, y: 1 })
    effectPending,        \* the last render's useEffect has not run yet
    crashed,              \* a render threw: the tree is gone
    \* a function of the sources called on its own
    call,                 \* the function's name and its arguments
    returned,             \* what the call returned
    \* ObjectSelection.tsx
    recentSearches,       \* useState<string[]>([]), kept in localStorage
    \* history, not program state
    before,               \* summary of the interaction state before the last event
    discarded,            \* what the last unmount of the results threw away
    saves                 \* calls of saveToRecentSearches since the list was loaded

vars == <<imageData, isLoading, error, isDetecting, detectionResults,
          detectionError, objects, loadingFile, pending, selectedDetectionId,
          hoveredDetection, tooltipData, coordinatePopup, coordinateFormat,
          rulerMode, rulerPoints, mousePosition, copiedCoordinate, writes,
          timers, exactDimensions, displayDimensions, scaleFactors,
          effectPending, crashed, call, returned, before, discarded,
          recentSearches, saves>>

uploadVars == <<imageData, isLoading, error, isDetecting, detectionResults,
                detectionError, objects, loadingFile, pending>>

searchVars == <<recentSearches, saves>>

----------------------------------------------------------------------------
(* Bounds *)

NumPoints == 2          \* distinct pointer positions inside the surface
MaxPending == 2         \* cap on unsettled fetches
MaxCopies == 2          \* cap on copies whose write or timer is pending
MaxSaves == 3           \* cap on calls of saveToRecentSearches after the load

----------------------------------------------------------------------------
(* Values *)

Null == <<>>
Some(v) == <<v>>
Val(o) == o[1]

\* the value of an expression, computed once: the only element of {v}
The(S) == CHOOSE v \in S : TRUE

RECURSIVE GCD(_, _)
GCD(a, b) == IF b = 0 THEN a ELSE The({GCD(b, r) : r \in {a % b}})

Abs(n) == IF n < 0 THEN -n ELSE n

\* the real number n / d (d > 0), in lowest terms
Frac(n, d) ==
    The({IF p[1] = 0 THEN [n |-> 0, d |-> 1]
         ELSE The({[n |-> p[1] \div g, d |-> p[2] \div g] :
                      g \in {GCD(Abs(p[1]), p[2])}}) : p \in {<<n, d>>}})

\* an integer as a fraction
Num(v) == [n |-> v, d |-> 1]

NumPoint(pt) == [x |-> Num(pt.x), y |-> Num(pt.y)]

MkDetection(id, x1, y1, x2, y2, matched) ==
    [id |-> id,
     class_name |-> IF matched THEN "cat" ELSE "dog",
     bbox |-> [x1 |-> x1, y1 |-> y1, x2 |-> x2, y2 |-> y2],
     vertices |-> [top_left |-> [x |-> x1, y |-> y1],
                   top_right |-> [x |-> x2, y |-> y1],
                   bottom_left |-> [x |-> x1, y |-> y2],
                   bottom_right |-> [x |-> x2, y |-> y2]],
     center_point |-> [x |-> (x1 + x2) \div 2, y |-> (y1 + y2) \div 2],
     area |-> (x2 - x1) * (y2 - y1),
     dimensions |-> [width |-> x2 - x1, height |-> y2 - y1],
     matched_request |-> matched]

\* two responses of the detector: a large image with detections 1 and 2,
\* and a small image whose only detection has id 1
ResultA ==
    [detections |-> <<MkDetection(1, 100, 200, 300, 400, TRUE),
                      MkDetection(2, 500, 100, 900, 700, FALSE)>>,
     image_dimensions |-> [width |-> 1200, height |-> 900],
     annotated_image_base64 |-> Some("A")]

ResultB ==
    [detections |-> <<MkDetection(1, 40, 60, 240, 360, TRUE)>>,
     image_dimensions |-> [width |-> 800, height |-> 600],
     annotated_image_base64 |-> Some("B")]

ResultSets == {ResultA, ResultB}

Files == {[name |-> "a.png", type |-> "image/png", size |-> 2 * 1024 * 1024],
          [name |-> "b.gif", type |-> "image/gif", size |-> 1024],
          [name |-> "c.png", type |-> "image/png", size |-> 11 * 1024 * 1024]}

ObjectLists == {<<>>, <<"cat">>}

CoordinateFormats == {"pixels", "percentage", "normalized"}

----------------------------------------------------------------------------
(* What is mounted, and the overlay's props *)

\* ImageUpload renders <DetectionResults> inside {imageData && ...} and
\* {detectionResults && ...}
resultsMounted == imageData # Null /\ detectionResults # Null

\* DetectionResults renders the overlay only with an annotated image
overlayMounted ==
    resultsMounted /\ Val(detectionResults).annotated_image_base64 # Null

detections == Val(detectionResults).detections
imageWidth == Val(detectionResults).image_dimensions.width
imageHeight == Val(detectionResults).image_dimensions.height

DetectionSet == {detections[i] : i \in DOMAIN detections}
DetectionIds == {d.id : d \in DetectionSet}

\* the shapes the svg renders and the cards DetectionResults renders
Shapes == IF overlayMounted THEN DetectionSet ELSE {}
Cards == IF resultsMounted THEN DetectionSet ELSE {}

\* the id taken for an index into the array
Find_ByIndex(dets, id) ==
    IF id + 1 \in DOMAIN dets THEN Some(dets[id + 1]) ELSE Null

\* Array.prototype.find: the first element with the id, or undefined
Find(dets, id) ==
    LET hits == {i \in DOMAIN dets : dets[i].id = id}
    IN  IF hits = {} THEN Null
        ELSE Some(dets[CHOOSE i \in hits : \A j \in hits : i <= j])

----------------------------------------------------------------------------
(* ScalingEngine *)

maxHeight == 600

\* Math.round of the non-negative real n / d
Round(n, d) == (2 * n + d) \div (2 * d)

\* getScaledDimensions cutting the width instead of rounding it
getScaledDimensions_Floor(w, h, exact) ==
    IF exact THEN [width |-> w, height |-> h]
    ELSE IF h <= maxHeight THEN [width |-> w, height |-> h]
    ELSE [width |-> (maxHeight * w) \div h, height |-> maxHeight]

\* getScaledDimensions capping the height only
getScaledDimensions_KeepsWidth(w, h, exact) ==
    IF exact THEN [width |-> w, height |-> h]
    ELSE IF h <= maxHeight THEN [width |-> w, height |-> h]
    ELSE [width |-> w, height |-> maxHeight]

getScaledDimensions(w, h, exact) ==
    IF exact THEN [width |-> w, height |-> h]
    ELSE IF h <= maxHeight THEN [width |-> w, height |-> h]
    ELSE [width |-> Round(maxHeight * w, h), height |-> maxHeight]

scaledDimensions == getScaledDimensions(imageWidth, imageHeight, exactDimensions)

\* updateDimensions writing the x factor only
updateDimensions_Torn(w, h, exact) ==
    LET scaled == getScaledDimensions(w, h, exact)
    IN  [displayDimensions |->
             [width |-> scaled.width, height |-> scaled.height],
         scaleFactors |-> [x |-> Frac(scaled.width, w), y |-> scaleFactors.y]]

\* updateDimensions scaling the factors it finds
updateDimensions_Compounding(w, h, exact) ==
    LET scaled == getScaledDimensions(w, h, exact)
    IN  [displayDimensions |->
             [width |-> scaled.width, height |-> scaled.height],
         scaleFactors |->
             [x |-> Frac(scaleFactors.x.n * scaled.width, scaleFactors.x.d * w),
              y |-> Frac(scaleFactors.y.n * scaled.height,
                         scaleFactors.y.d * h)]]

\* what updateDimensions (and the image's onLoad) hands to
\* setDisplayDimensions and setScaleFactors
updateDimensions(w, h, exact) ==
    LET scaled == getScaledDimensions(w, h, exact)
    IN  IF exact
        THEN [displayDimensions |-> [width |-> w, height |-> h],
              scaleFactors |-> [x |-> Frac(1, 1), y |-> Frac(1, 1)]]
        ELSE [displayDimensions |->
                  [width |-> scaled.width, height |-> scaled.height],
              scaleFactors |-> [x |-> Frac(scaled.width, w),
                                y |-> Frac(scaled.height, h)]]

\* the dependency array of the useEffect
deps ==
    <<imageWidth, imageHeight, exactDimensions, scaledDimensions.width,
      scaledDimensions.height>>

----------------------------------------------------------------------------
(* Pointer events *)

\* the container's bounding rect in the viewport
Rects == {[left |-> 8, top |-> 16]}

\* pointer positions inside the surface, relative to the container
Offsets == {[dx |-> 30 * k, dy |-> 40 * k] : k \in 1..NumPoints}

\* a mouse event: client coordinates, and the container's rect when it fires
MouseEvents ==
    {[clientX |-> r.left + o.dx, clientY |-> r.top + o.dy, rect |-> r] :
        r \in Rects, o \in Offsets}

\* an image laid out at its natural size
imageRect_NaturalSize(e) ==
    [left |-> e.rect.left, top |-> e.rect.top,
     width |-> imageWidth, height |-> imageHeight]

\* the <Image> is the first in-flow child of the container: same origin,
\* sized by its style to scaledDimensions
imageRect(e) ==
    [left |-> e.rect.left, top |-> e.rect.top,
     width |-> scaledDimensions.width, height |-> scaledDimensions.height]

\* getImageCoordinates measuring from the viewport's origin
getImageCoordinatesAt_IgnoresOrigin(clientX, clientY, ref, w, h) ==
    IF ref = Null THEN [x |-> Frac(0, 1), y |-> Frac(0, 1)]
    ELSE [x |-> Frac(clientX * w, Val(ref).width),
          y |-> Frac(clientY * h, Val(ref).height)]

\* getImageCoordinates(clientX, clientY) with imageRef.current (null, or the
\* image's bounding rect) and the props imageWidth and imageHeight
getImageCoordinatesAt(clientX, clientY, ref, w, h) ==
    IF ref = Null THEN [x |-> Frac(0, 1), y |-> Frac(0, 1)]
    ELSE [x |-> Frac((clientX - Val(ref).left) * w, Val(ref).width),
          y |-> Frac((clientY - Val(ref).top) * h, Val(ref).height)]

\* the call of a handler: the image is mounted with the svg that takes the
\* event
getImageCoordinates(e) ==
    getImageCoordinatesAt(e.clientX, e.clientY, Some(imageRect(e)),
                          imageWidth, imageHeight)

\* a vertex placed at its image coordinates
toDisplaySpace_Unscaled(point, factors) == point

\* an image-space point times the scale factors, as renderBoundingBox
\* places a vertex
toDisplaySpace(point, factors) ==
    [x |-> Frac(point.x.n * factors.x.n, point.x.d * factors.x.d),
     y |-> Frac(point.y.n * factors.y.n, point.y.d * factors.y.d)]

\* where the svg draws: the corners and the center crosshair of a detection,
\* and the circle of a ruler point
drawnVertices(d) ==
    {toDisplaySpace(NumPoint(v), scaleFactors) :
        v \in {d.vertices.top_left, d.vertices.top_right,
               d.vertices.bottom_left, d.vertices.bottom_right}}

\* pathData of renderBoundingBox under scale factors: M top_left L top_right
\* L bottom_right L bottom_left Z
pathData(d, factors) ==
    <<toDisplaySpace(NumPoint(d.vertices.top_left), factors),
      toDisplaySpace(NumPoint(d.vertices.top_right), factors),
      toDisplaySpace(NumPoint(d.vertices.bottom_right), factors),
      toDisplaySpace(NumPoint(d.vertices.bottom_left), factors)>>

drawnCrosshair(d) == toDisplaySpace(NumPoint(d.center_point), scaleFactors)

drawnRulerMarker(point) == [x |-> Num(point.x), y |-> Num(point.y)]

\* renderBoundingBox: the interaction state of a detection and the weight
\* its path is drawn with; strokeWidth in tenths of a pixel (3, 2.5, 2),
\* opacity in tenths (0.8, 0.6)
isSelected(d) == selectedDetectionId = Some(d.id)

isHovered(d) == hoveredDetection = Some(d.id)

strokeWidth(d) == IF isSelected(d) THEN 30 ELSE IF isHovered(d) THEN 25 ELSE 20

opacity(d) == IF isHovered(d) THEN 8 ELSE 6

\* a summary of the interaction state
Summary ==
    [hovered |-> hoveredDetection # Null, popupOpen |-> coordinatePopup # Null,
     rulerMode |-> rulerMode, rulerLen |-> Len(rulerPoints)]

\* the interaction state an unmount throws away
Snapshot ==
    [selectedId |-> selectedDetectionId, hoveredId |-> hoveredDetection,
     popupOpen |-> coordinatePopup # Null, rulerLen |-> Len(rulerPoints)]

----------------------------------------------------------------------------
(* InteractiveImageOverlay: handlers *)

\* the part of the state a click can change
ClickState ==
    [coordinatePopup |-> coordinatePopup,
     selectedDetectionId |-> selectedDetectionId,
     rulerPoints |-> rulerPoints]

newPoint(e) ==
    LET imageCoords == getImageCoordinates(e)
    IN  [x |-> e.clientX - e.rect.left, y |-> e.clientY - e.rect.top,
         imageX |-> imageCoords.x, imageY |-> imageCoords.y]

\* handleBoxClick without e.stopPropagation()
handleBoxClick_NoStop(detection, e, s) ==
    [stopped |-> FALSE,
     s |-> IF rulerMode THEN s
           ELSE [s EXCEPT
                   !.coordinatePopup =
                       Some([detection |-> detection,
                             x |-> e.clientX - e.rect.left,
                             y |-> e.clientY - e.rect.top]),
                   !.selectedDetectionId = Some(detection.id)]]

\* handleBoxClick without the return in ruler mode
handleBoxClick_IgnoresRuler(detection, e, s) ==
    [stopped |-> TRUE,
     s |-> [s EXCEPT
              !.coordinatePopup =
                  Some([detection |-> detection,
                        x |-> e.clientX - e.rect.left,
                        y |-> e.clientY - e.rect.top]),
              !.selectedDetectionId = Some(detection.id)]]

\* handleBoxClick: the state after it, and whether it stopped propagation
handleBoxClick(detection, e, s) ==
    [stopped |-> TRUE,
     s |-> IF rulerMode THEN s
           ELSE [s EXCEPT
                   !.coordinatePopup =
                       Some([detection |-> detection,
                             x |-> e.clientX - e.rect.left,
                             y |-> e.clientY - e.rect.top]),
                   !.selectedDetectionId = Some(detection.id)]]

\* handleImageClick testing prev.length > 2
handleImageClick_OffByOne(e, s) ==
    IF rulerMode
    THEN [s EXCEPT !.rulerPoints =
             IF Len(s.rulerPoints) > 2 THEN <<newPoint(e)>>
             ELSE Append(s.rulerPoints, newPoint(e))]
    ELSE [s EXCEPT !.coordinatePopup = Null, !.selectedDetectionId = Null]

\* handleImageClick shifting the oldest point out
handleImageClick_Sliding(e, s) ==
    IF rulerMode
    THEN [s EXCEPT !.rulerPoints =
             IF Len(s.rulerPoints) >= 2 THEN <<s.rulerPoints[2], newPoint(e)>>
             ELSE Append(s.rulerPoints, newPoint(e))]
    ELSE [s EXCEPT !.coordinatePopup = Null, !.selectedDetectionId = Null]

\* handleImageClick without onDetectionSelect(null)
handleImageClick_KeepsSelection(e, s) ==
    IF rulerMode
    THEN [s EXCEPT !.rulerPoints =
             IF Len(s.rulerPoints) >= 2 THEN <<newPoint(e)>>
             ELSE Append(s.rulerPoints, newPoint(e))]
    ELSE [s EXCEPT !.coordinatePopup = Null]

handleImageClick(e, s) ==
    IF rulerMode
    THEN [s EXCEPT !.rulerPoints =
             IF Len(s.rulerPoints) >= 2 THEN <<newPoint(e)>>
             ELSE Append(s.rulerPoints, newPoint(e))]
    ELSE [s EXCEPT !.coordinatePopup = Null, !.selectedDetectionId = Null]

\* handleMouseMove anchoring the tooltip at the client position
handleMouseMove_ClientAnchor(e) ==
    /\ mousePosition' = Some(getImageCoordinates(e))
    /\ tooltipData' =
         IF hoveredDetection # Null
         THEN Some([detection |-> Find(detections, Val(hoveredDetection)),
                    x |-> e.clientX, y |-> e.clientY])
         ELSE tooltipData

handleMouseMove(e) ==
    /\ mousePosition' = Some(getImageCoordinates(e))
    /\ tooltipData' =
         IF hoveredDetection # Null
         THEN Some([detection |-> Find(detections, Val(hoveredDetection)),
                    x |-> e.clientX - e.rect.left,
                    y |-> e.clientY - e.rect.top])
         ELSE tooltipData

\* handleMouseLeave without setTooltipData(null)
handleMouseLeave_KeepsTooltip ==
    /\ hoveredDetection' = Null
    /\ mousePosition' = Null
    /\ UNCHANGED tooltipData

handleMouseLeave ==
    /\ hoveredDetection' = Null
    /\ tooltipData' = Null
    /\ mousePosition' = Null

clearRuler == rulerPoints' = <<>>

\* the Ruler button's onClick clearing the points in both directions
toggleRuler_AlwaysClears ==
    /\ rulerMode' = ~rulerMode
    /\ rulerPoints' = <<>>

\* the Ruler button's onClick
toggleRuler ==
    /\ rulerMode' = ~rulerMode
    /\ IF ~rulerMode THEN clearRuler ELSE UNCHANGED rulerPoints

\* the render reads tooltipData.detection.class_name
RenderThrows == tooltipData # Null /\ Val(tooltipData).detection = Null

----------------------------------------------------------------------------
(* Formatting and the texts a render produces *)

\* a rendered number: the string of digits / 10^decimals followed by suffix,
\* e.g. "12.3%" is [digits |-> 123, decimals |-> 1, suffix |-> "%"]
Text(digits, decimals, suffix) ==
    [digits |-> digits, decimals |-> decimals, suffix |-> suffix]

Max(a, b) == IF a >= b THEN a ELSE b

\* the greatest r in lo..hi with r * r <= n (lo * lo <= n)
RECURSIVE ISqrtBetween(_, _, _)
ISqrtBetween(n, lo, hi) ==
    IF lo >= hi THEN lo
    ELSE The({IF mid * mid <= n THEN ISqrtBetween(n, mid, hi)
              ELSE ISqrtBetween(n, lo, mid - 1) :
                 mid \in {(lo + hi + 1) \div 2}})

\* floor of the square root of n >= 0
ISqrt(n) ==
    The({ISqrtBetween(v, 0, IF v < 46340 THEN v ELSE 46340) : v \in {n}})

\* Math.round of the square root of the real n / d
RoundSqrt(n, d) == (ISqrt((4 * n) \div d) + 1) \div 2

IsSquare(q) == ISqrt(q.n) * ISqrt(q.n) = q.n /\ ISqrt(q.d) * ISqrt(q.d) = q.d

\* formatCoordinate with the format stuck at pixels
formatCoordinate_AlwaysPixels(value, axis, format, w, h) ==
    Text(Round(value.n, value.d), 0, "")

\* formatCoordinate normalising every value against the image width
formatCoordinate_AgainstWidth(value, axis, format, w, h) ==
    CASE format = "percentage" /\ w # 0 ->
           Text(Round(value.n * 1000, value.d * w), 1, "%")
      [] format = "normalized" /\ w # 0 ->
           Text(Round(value.n * 1000, value.d * w), 3, "")
      [] OTHER -> Text(Round(value.n, value.d), 0, "")

\* formatCoordinate cutting the digits it does not show
formatCoordinate_Truncates(value, axis, format, w, h) ==
    LET maxValue == IF axis = "x" THEN w ELSE IF axis = "y" THEN h ELSE Max(w, h)
    IN  CASE format = "percentage" /\ maxValue # 0 ->
               Text((value.n * 1000) \div (value.d * maxValue), 1, "%")
          [] format = "normalized" /\ maxValue # 0 ->
               Text((value.n * 1000) \div (value.d * maxValue), 3, "")
          [] OTHER -> Text(value.n \div value.d, 0, "")

\* the string of a division by zero: toFixed of NaN or of an infinity
NonFinite(value, suffix) ==
    [literal |-> IF value.n = 0 THEN "NaN"
                 ELSE IF value.n > 0 THEN "Infinity" ELSE "-Infinity",
     suffix |-> suffix]

\* formatCoordinate(value, axis) under a coordinateFormat and image extents;
\* value is a fraction, axis is "x", "y" or "none" (undefined)
formatCoordinate(value, axis, format, w, h) ==
    LET maxValue == IF axis = "x" THEN w ELSE IF axis = "y" THEN h ELSE Max(w, h)
    IN  CASE format = "percentage" ->
               IF maxValue = 0 THEN NonFinite(value, "%")
               ELSE Text(Round(value.n * 1000, value.d * maxValue), 1, "%")
          [] format = "normalized" ->
               IF maxValue = 0 THEN NonFinite(value, "")
               ELSE Text(Round(value.n * 1000, value.d * maxValue), 3, "")
          [] OTHER -> Text(Round(value.n, value.d), 0, "")

\* formatCoordinatePair(point): the two texts it joins with ", "
formatCoordinatePair(point, format, w, h) ==
    <<formatCoordinate(point.x, "x", format, w, h),
      formatCoordinate(point.y, "y", format, w, h)>>

\* calculateDistance over the display coordinates of the points
distanceSquared_Display(p1, p2) ==
    Frac((p2.x - p1.x) * (p2.x - p1.x) + (p2.y - p1.y) * (p2.y - p1.y), 1)

\* the square of calculateDistance(p1, p2), as a fraction
distanceSquared(p1, p2) ==
    LET dx == [n |-> p2.imageX.n * p1.imageX.d - p1.imageX.n * p2.imageX.d,
               d |-> p2.imageX.d * p1.imageX.d]
        dy == [n |-> p2.imageY.n * p1.imageY.d - p1.imageY.n * p2.imageY.d,
               d |-> p2.imageY.d * p1.imageY.d]
    IN  Frac(dx.n * dx.n * dy.d * dy.d + dy.n * dy.n * dx.d * dx.d,
             dx.d * dx.d * dy.d * dy.d)

\* the distance normalised against the image height
formatDistance_AgainstHeight(p1, p2, format, w, h) ==
    LET formatRoot(q) ==
            formatCoordinate([n |-> ISqrt(q.n), d |-> ISqrt(q.d)], "y", format,
                             w, h)
    IN  The({formatRoot(q) : q \in {distanceSquared(p1, p2)}})

\* formatCoordinate(calculateDistance(p1, p2)): the root is taken exactly
\* when the square is a square of a fraction
formatDistance(p1, p2, format, w, h) ==
    LET m == Max(w, h)
        formatRoot(q) ==
            IF IsSquare(q)
            THEN formatCoordinate([n |-> ISqrt(q.n), d |-> ISqrt(q.d)], "none",
                                  format, w, h)
            ELSE CASE format = "percentage" ->
                        Text(RoundSqrt(q.n * 1000000, q.d * m * m), 1, "%")
                   [] format = "normalized" ->
                        Text(RoundSqrt(q.n * 1000000, q.d * m * m), 3, "")
                   [] OTHER -> Text(RoundSqrt(q.n, q.d), 0, "")
    IN  The({formatRoot(q) : q \in {distanceSquared(p1, p2)}})

\* the "Distance: ..." span of the controls for a ruler point collection:
\* null when it is not rendered
rulerDistanceDisplay(points, format, w, h) ==
    IF Len(points) = 2
    THEN Some([text |-> formatDistance(points[1], points[2], format, w, h),
               unit |-> IF format = "pixels" THEN "px"
                        ELSE IF format = "percentage" THEN "%" ELSE "units"])
    ELSE Null

\* "Mouse: ..." of the controls
MouseReadout ==
    IF mousePosition = Null THEN {}
    ELSE LET t == formatCoordinatePair(Val(mousePosition), coordinateFormat,
                                       imageWidth, imageHeight)
         IN  {t[1], t[2]}

\* "Distance: ..." of the controls, shown with exactly two points
RulerDistance ==
    IF Len(rulerPoints) # 2 THEN {}
    ELSE {formatDistance(rulerPoints[1], rulerPoints[2], coordinateFormat,
                         imageWidth, imageHeight)}

\* the unit that follows the distance
RulerUnit ==
    IF coordinateFormat = "pixels" THEN "px"
    ELSE IF coordinateFormat = "percentage" THEN "%" ELSE "units"

\* center and size of a detection, as the tooltip and the popup show them
DetectionTexts(d) ==
    LET c == formatCoordinatePair(NumPoint(d.center_point), coordinateFormat,
                                  imageWidth, imageHeight)
    IN  {c[1], c[2],
         formatCoordinate(Num(d.dimensions.width), "none", coordinateFormat,
                          imageWidth, imageHeight),
         formatCoordinate(Num(d.dimensions.height), "none", coordinateFormat,
                          imageWidth, imageHeight)}

TooltipTexts ==
    IF tooltipData = Null \/ Val(tooltipData).detection = Null THEN {}
    ELSE DetectionTexts(Val(Val(tooltipData).detection))

PopupTexts ==
    IF coordinatePopup = Null THEN {}
    ELSE LET d == Val(coordinatePopup).detection
             Corner(v) == formatCoordinatePair(NumPoint(v), coordinateFormat,
                                               imageWidth, imageHeight)
         IN  DetectionTexts(d) \cup
             UNION {{Corner(v)[1], Corner(v)[2]} :
                       v \in {d.vertices.top_left, d.vertices.top_right,
                              d.vertices.bottom_left, d.vertices.bottom_right}}

\* every formatted coordinate text of a render of the overlay
RenderedTexts ==
    IF overlayMounted
    THEN MouseReadout \cup RulerDistance \cup TooltipTexts \cup PopupTexts
    ELSE {}

----------------------------------------------------------------------------
(* Initial state: the useState initialisers *)

overlayVars == <<hoveredDetection, tooltipData, coordinatePopup, coordinateFormat,
                 rulerMode, rulerPoints, mousePosition>>

OverlayInit ==
    [hoveredDetection |-> Null, tooltipData |-> Null, coordinatePopup |-> Null,
     coordinateFormat |-> "pixels", rulerMode |-> FALSE, rulerPoints |-> <<>>,
     mousePosition |-> Null, copiedCoordinate |-> Null,
     displayDimensions |-> [width |-> 0, height |-> 0],
     scaleFactors |-> [x |-> Frac(1, 1), y |-> Frac(1, 1)]]

scaleVars == <<displayDimensions, scaleFactors, effectPending>>

clipVars == <<copiedCoordinate, writes, timers>>

\* React runs the pending effects of a render before it handles the next
\* event, and handles no event after a render has thrown
settled == ~crashed /\ ~effectPending

Init ==
    /\ imageData = Null
    /\ isLoading = FALSE
    /\ error = Null
    /\ isDetecting = FALSE
    /\ detectionResults = Null
    /\ detectionError = Null
    /\ objects = <<>>
    /\ loadingFile = Null
    /\ pending = 0
    /\ selectedDetectionId = Null
    /\ hoveredDetection = OverlayInit.hoveredDetection
    /\ tooltipData = OverlayInit.tooltipData
    /\ coordinatePopup = OverlayInit.coordinatePopup
    /\ coordinateFormat = OverlayInit.coordinateFormat
    /\ rulerMode = OverlayInit.rulerMode
    /\ rulerPoints = OverlayInit.rulerPoints
    /\ mousePosition = OverlayInit.mousePosition
    /\ copiedCoordinate = OverlayInit.copiedCoordinate
    /\ writes = <<>>
    /\ timers = <<>>
    /\ exactDimensions = FALSE
    /\ displayDimensions = OverlayInit.displayDimensions
    /\ scaleFactors = OverlayInit.scaleFactors
    /\ effectPending = FALSE
    /\ crashed = FALSE
    /\ call = <<>>
    /\ returned = Null
    /\ recentSearches = <<>>
    /\ saves = 0
    /\ before = Summary
    /\ discarded = Null

----------------------------------------------------------------------------
(* Events of the overlay and of the detection cards *)

\* the frame of an overlay event: the upload component is not touched, the
\* new state is rendered
OverlayEvent ==
    /\ before' = Summary
    /\ discarded' = Null
    /\ crashed' = RenderThrows'
    /\ UNCHANGED uploadVars
    /\ UNCHANGED <<exactDimensions, scaleVars, clipVars, call, returned,
                   searchVars>>

\* an onMouseEnter that also drops the tooltip
MouseEnterShape_DropsTooltip(d) ==
    /\ overlayMounted /\ settled
    /\ hoveredDetection' = Some(d.id)
    /\ tooltipData' = Null
    /\ UNCHANGED <<selectedDetectionId, coordinatePopup, coordinateFormat,
                   rulerMode, rulerPoints, mousePosition>>
    /\ OverlayEvent

\* onMouseEnter of a detection's path or corner dot
MouseEnterShape(d) ==
    /\ overlayMounted /\ settled
    /\ hoveredDetection' = Some(d.id)
    /\ UNCHANGED <<selectedDetectionId, tooltipData, coordinatePopup,
                   coordinateFormat, rulerMode, rulerPoints, mousePosition>>
    /\ OverlayEvent

\* an onMouseMove that ends the hover
MouseMove_ClearsHover(e) ==
    /\ overlayMounted /\ settled
    /\ UNCHANGED <<selectedDetectionId, coordinatePopup, coordinateFormat,
                   rulerMode, rulerPoints>>
    /\ hoveredDetection' = Null
    /\ tooltipData' = Null
    /\ mousePosition' = Some(getImageCoordinates(e))
    /\ OverlayEvent

\* onMouseMove of the svg
MouseMove(e) ==
    /\ overlayMounted /\ settled
    /\ UNCHANGED <<selectedDetectionId, hoveredDetection, coordinatePopup,
                   coordinateFormat, rulerMode, rulerPoints>>
    /\ handleMouseMove(e)
    /\ OverlayEvent

\* onMouseLeave of the container
MouseLeave ==
    /\ overlayMounted /\ settled
    /\ handleMouseLeave
    /\ UNCHANGED <<selectedDetectionId, coordinatePopup, coordinateFormat,
                   rulerMode, rulerPoints>>
    /\ OverlayEvent

ApplyClick(s) ==
    /\ UNCHANGED <<hoveredDetection, tooltipData, coordinateFormat, rulerMode,
                   mousePosition>>
    /\ coordinatePopup' = s.coordinatePopup
    /\ selectedDetectionId' = s.selectedDetectionId
    /\ rulerPoints' = s.rulerPoints

\* the dispatch of a click on a detection's path or corner dot: its onClick
\* runs, then the svg's onClick unless propagation was stopped
clickShape(d, e) ==
    LET r == handleBoxClick(d, e, ClickState)
    IN  IF r.stopped THEN r.s ELSE handleImageClick(e, r.s)

\* the dispatch of a click on the svg outside every shape
clickBackground(e) == handleImageClick(e, ClickState)

ClickShape(d, e) ==
    /\ overlayMounted /\ settled
    /\ ApplyClick(clickShape(d, e))
    /\ OverlayEvent

ClickBackground(e) ==
    /\ overlayMounted /\ settled
    /\ ApplyClick(clickBackground(e))
    /\ OverlayEvent

\* one of the three format buttons
SetCoordinateFormat(format) ==
    /\ overlayMounted /\ settled
    /\ coordinateFormat' = format
    /\ UNCHANGED <<selectedDetectionId, hoveredDetection, tooltipData,
                   coordinatePopup, rulerMode, rulerPoints, mousePosition>>
    /\ OverlayEvent

\* the Ruler ON/OFF button
ToggleRuler ==
    /\ overlayMounted /\ settled
    /\ toggleRuler
    /\ UNCHANGED <<selectedDetectionId, hoveredDetection, tooltipData,
                   coordinatePopup, coordinateFormat, mousePosition>>
    /\ OverlayEvent

\* the Clear button, rendered while rulerPoints.length > 0
ClickClear ==
    /\ overlayMounted /\ settled
    /\ Len(rulerPoints) > 0
    /\ clearRuler
    /\ UNCHANGED <<selectedDetectionId, hoveredDetection, tooltipData,
                   coordinatePopup, coordinateFormat, rulerMode, mousePosition>>
    /\ OverlayEvent

\* the popup's close button
ClosePopup ==
    /\ overlayMounted /\ settled
    /\ coordinatePopup # Null
    /\ coordinatePopup' = Null
    /\ UNCHANGED <<selectedDetectionId, hoveredDetection, tooltipData,
                   coordinateFormat, rulerMode, rulerPoints, mousePosition>>
    /\ OverlayEvent

\* the frame of a recomputation of the scaling state
ScaleEvent ==
    /\ UNCHANGED <<uploadVars, selectedDetectionId, overlayVars, clipVars,
                   exactDimensions, crashed, call, returned, before,
                   discarded, searchVars>>

\* the useEffect of the last render: updateDimensions(), and the resize
\* listener is registered anew
RunEffect ==
    /\ overlayMounted /\ ~crashed /\ effectPending
    /\ LET r == updateDimensions(imageWidth, imageHeight, exactDimensions)
       IN  /\ displayDimensions' = r.displayDimensions
           /\ scaleFactors' = r.scaleFactors
    /\ effectPending' = FALSE
    /\ ScaleEvent

\* a resize of the window: the registered listener runs updateDimensions,
\* whose closure holds the props of the last render
Resize ==
    /\ overlayMounted /\ settled
    /\ LET r == updateDimensions(imageWidth, imageHeight, exactDimensions)
       IN  /\ displayDimensions' = r.displayDimensions
           /\ scaleFactors' = r.scaleFactors
    /\ UNCHANGED effectPending
    /\ ScaleEvent

\* onLoad of the <Image>
ImageLoad ==
    /\ overlayMounted /\ settled
    /\ LET r == updateDimensions(imageWidth, imageHeight, exactDimensions)
       IN  /\ displayDimensions' = r.displayDimensions
           /\ scaleFactors' = r.scaleFactors
    /\ UNCHANGED effectPending
    /\ ScaleEvent

\* the labels of the popup's copy buttons: the four vertices, the center and
\* the size
CopyLabels ==
    {"popup-top_left", "popup-top_right", "popup-bottom_left",
     "popup-bottom_right", "popup-center", "popup-dimensions"}

\* a sequence without its i-th element
Remove(seq, i) == SubSeq(seq, 1, i - 1) \o SubSeq(seq, i + 1, Len(seq))

\* the frame of a step of copyToClipboard
ClipEvent ==
    /\ UNCHANGED <<uploadVars, selectedDetectionId, overlayVars,
                   exactDimensions, scaleVars, crashed, call, returned, before,
                   discarded, searchVars>>

\* a copy button of the popup: copyToClipboard up to its await of
\* navigator.clipboard.writeText
ClickCopy(label) ==
    /\ overlayMounted /\ settled
    /\ coordinatePopup # Null
    /\ Len(writes) + Len(timers) < MaxCopies
    /\ writes' = Append(writes, label)
    /\ UNCHANGED <<copiedCoordinate, timers>>
    /\ ClipEvent

\* a write resolving without the timeout being armed
WriteResolved_NoTimer(i) ==
    /\ overlayMounted /\ settled
    /\ i \in DOMAIN writes
    /\ copiedCoordinate' = Some(writes[i])
    /\ writes' = Remove(writes, i)
    /\ UNCHANGED timers
    /\ ClipEvent

\* writeText resolves: copyToClipboard after the await
WriteResolved(i) ==
    /\ overlayMounted /\ settled
    /\ i \in DOMAIN writes
    /\ copiedCoordinate' = Some(writes[i])
    /\ timers' = Append(timers, writes[i])
    /\ writes' = Remove(writes, i)
    /\ ClipEvent

\* writeText rejects (or navigator.clipboard is missing): the catch block
\* logs to the console
WriteRejected(i) ==
    /\ overlayMounted /\ settled
    /\ i \in DOMAIN writes
    /\ writes' = Remove(writes, i)
    /\ UNCHANGED <<copiedCoordinate, timers>>
    /\ ClipEvent

\* the oldest pending timeout fires, 2000 ms after its copy:
\* setCopiedCoordinate(null)
TimerFires ==
    /\ overlayMounted /\ settled
    /\ timers # <<>>
    /\ copiedCoordinate' = Null
    /\ timers' = Tail(timers)
    /\ UNCHANGED writes
    /\ ClipEvent

\* a card click that also closes the overlay's popup
CardClick_ClosesPopup(d) ==
    /\ resultsMounted /\ settled
    /\ selectedDetectionId' =
         IF selectedDetectionId = Some(d.id) THEN Null ELSE Some(d.id)
    /\ coordinatePopup' = Null
    /\ UNCHANGED <<hoveredDetection, tooltipData, coordinateFormat, rulerMode,
                   rulerPoints, mousePosition>>
    /\ OverlayEvent

\* a click on a detection card of DetectionResults
CardClick(d) ==
    /\ resultsMounted /\ settled
    /\ selectedDetectionId' =
         IF selectedDetectionId = Some(d.id) THEN Null ELSE Some(d.id)
    /\ UNCHANGED overlayVars
    /\ OverlayEvent

----------------------------------------------------------------------------
(* ImageUpload *)

acceptedTypes == {"image/jpeg", "image/jpg", "image/png"}

maxFileSize == 10 * 1024 * 1024

validateFile(file) ==
    IF file.type \notin acceptedTypes
    THEN Some("Please select a JPG, JPEG, or PNG image file.")
    ELSE IF file.size > maxFileSize
    THEN Some("File size must be less than 10MB.")
    ELSE Null

\* canDetect without its !isDetecting
canDetect_IgnoresDetecting == imageData # Null /\ Len(objects) > 0

canDetect == imageData # Null /\ Len(objects) > 0 /\ ~isDetecting

\* React keeps a component's state while it stays mounted and builds it anew
\* from the useState initialisers when it is mounted again
Reconcile ==
    /\ UNCHANGED <<exactDimensions, call, returned, searchVars>>
    /\ selectedDetectionId' =
         IF resultsMounted /\ resultsMounted' THEN selectedDetectionId ELSE Null
    /\ IF overlayMounted /\ overlayMounted'
       THEN /\ UNCHANGED <<overlayVars, displayDimensions, scaleFactors,
                           clipVars>>
            /\ effectPending' = (effectPending \/ deps' # deps)
       ELSE /\ displayDimensions' = OverlayInit.displayDimensions
            /\ scaleFactors' = OverlayInit.scaleFactors
            /\ effectPending' = overlayMounted'
            /\ hoveredDetection' = OverlayInit.hoveredDetection
            /\ tooltipData' = OverlayInit.tooltipData
            /\ coordinatePopup' = OverlayInit.coordinatePopup
            /\ coordinateFormat' = OverlayInit.coordinateFormat
            /\ rulerMode' = OverlayInit.rulerMode
            /\ rulerPoints' = OverlayInit.rulerPoints
            /\ mousePosition' = OverlayInit.mousePosition
            /\ copiedCoordinate' = OverlayInit.copiedCoordinate
            \* the writes and timers of an unmounted overlay set no state
            /\ writes' = <<>>
            /\ timers' = <<>>
    /\ discarded' = IF resultsMounted /\ ~resultsMounted' THEN Some(Snapshot)
                    ELSE discarded
    /\ before' = Summary
    /\ crashed' = RenderThrows'

\* processFile up to its first await (or to its end, when validation fails)
handleFileSelect(file) ==
    /\ detectionResults' = Null
    /\ detectionError' = Null
    /\ IF validateFile(file) # Null
       THEN /\ error' = validateFile(file)
            /\ isLoading' = FALSE
            /\ loadingFile' = Null
       ELSE /\ error' = Null
            /\ isLoading' = TRUE
            /\ loadingFile' = Some(file)
    /\ UNCHANGED imageData

\* a file chosen or dropped on the dropzone, which is rendered while there is
\* no image and takes no pointer events while isLoading
FileSelect(file) ==
    /\ settled
    /\ imageData = Null /\ ~isLoading
    /\ handleFileSelect(file)
    /\ UNCHANGED <<isDetecting, objects, pending>>
    /\ Reconcile

\* getImageDimensions resolves: the rest of processFile
FileLoaded ==
    /\ settled
    /\ loadingFile # Null
    /\ imageData' = Some(Val(loadingFile).name)
    /\ isLoading' = FALSE
    /\ loadingFile' = Null
    /\ UNCHANGED <<error, isDetecting, detectionResults, detectionError, objects,
                   pending>>
    /\ Reconcile

\* handleRemoveImage without setDetectionResults(null)
handleRemoveImage_KeepsResults ==
    /\ imageData' = Null
    /\ error' = Null
    /\ detectionError' = Null
    /\ UNCHANGED detectionResults

handleRemoveImage ==
    /\ imageData' = Null
    /\ error' = Null
    /\ detectionResults' = Null
    /\ detectionError' = Null

\* the Remove button, rendered with the image and disabled while isDetecting
RemoveImage ==
    /\ settled
    /\ imageData # Null /\ ~isDetecting
    /\ handleRemoveImage
    /\ UNCHANGED <<isLoading, isDetecting, objects, loadingFile, pending>>
    /\ Reconcile

\* onObjectsChange of ObjectSelection, rendered with the image
ObjectsChange(objs) ==
    /\ settled
    /\ imageData # Null
    /\ objects' = objs
    /\ UNCHANGED <<imageData, isLoading, error, isDetecting, detectionResults,
                   detectionError, loadingFile, pending>>
    /\ Reconcile

\* handleDetectObjects without setDetectionResults(null)
handleDetectObjects_KeepsResults ==
    IF imageData = Null \/ Len(objects) = 0
    THEN UNCHANGED <<isDetecting, detectionError, detectionResults, pending>>
    ELSE /\ isDetecting' = TRUE
         /\ detectionError' = Null
         /\ pending' = pending + 1
         /\ UNCHANGED detectionResults

\* handleDetectObjects without setDetectionError(null)
handleDetectObjects_KeepsError ==
    IF imageData = Null \/ Len(objects) = 0
    THEN UNCHANGED <<isDetecting, detectionError, detectionResults, pending>>
    ELSE /\ isDetecting' = TRUE
         /\ detectionResults' = Null
         /\ pending' = pending + 1
         /\ UNCHANGED detectionError

\* handleDetectObjects without its early return
handleDetectObjects_NoGuard ==
    /\ isDetecting' = TRUE
    /\ detectionError' = Null
    /\ detectionResults' = Null
    /\ pending' = pending + 1

\* handleDetectObjects up to its await of fetch
handleDetectObjects ==
    IF imageData = Null \/ Len(objects) = 0
    THEN UNCHANGED <<isDetecting, detectionError, detectionResults, pending>>
    ELSE /\ isDetecting' = TRUE
         /\ detectionError' = Null
         /\ detectionResults' = Null
         /\ pending' = pending + 1

\* the Detect button, rendered with the image and disabled unless canDetect
DetectObjects ==
    /\ settled
    /\ imageData # Null /\ canDetect
    /\ pending < MaxPending
    /\ handleDetectObjects
    /\ UNCHANGED <<imageData, isLoading, error, objects, loadingFile>>
    /\ Reconcile

\* handleDetectObjects called without an image or without objects, which the
\* disabled button does not do
DetectCall ==
    /\ settled
    /\ imageData = Null \/ Len(objects) = 0
    /\ pending < MaxPending
    /\ handleDetectObjects
    /\ UNCHANGED <<imageData, isLoading, error, objects, loadingFile>>
    /\ Reconcile

\* fetch resolved with an OK response that carries no error field
FetchResolved(results) ==
    /\ settled
    /\ pending > 0
    /\ pending' = pending - 1
    /\ detectionResults' = Some(results)
    /\ isDetecting' = FALSE
    /\ UNCHANGED <<imageData, isLoading, error, detectionError, objects,
                   loadingFile>>
    /\ Reconcile

FetchFailures ==
    {"Detection failed: 500 Internal Server Error", "error field",
     "Failed to fetch"}

\* a non-OK status, an error field in the body, or fetch throwing
FetchFailed(errorMessage) ==
    /\ settled
    /\ pending > 0
    /\ pending' = pending - 1
    /\ detectionError' = Some(errorMessage)
    /\ isDetecting' = FALSE
    /\ UNCHANGED <<imageData, isLoading, error, detectionResults, objects,
                   loadingFile>>
    /\ Reconcile

----------------------------------------------------------------------------
(* Functions called on their own *)

appVars ==
    <<uploadVars, selectedDetectionId, overlayVars, clipVars, exactDimensions,
      scaleVars, crashed, before, discarded, searchVars>>

\* image extents handed to the scaling
Widths == {1, 7, 640, 800, 1000, 1200, 1920, 4000}
Heights == {1, 300, 599, 600, 601, 900, 1080, 1201, 4001}

\* imageRef.current: null, or an image's bounding rect
ImageRefs ==
    {Null, Some([left |-> 8, top |-> 16, width |-> 800, height |-> 600]),
     Some([left |-> 0, top |-> 0, width |-> 1067, height |-> 600])}

\* client positions of a pointer
ClientPoints == {<<8, 16>>, <<38, 56>>, <<408, 316>>, <<808, 616>>}

ImageExtents == {<<1200, 900>>, <<1920, 1080>>, <<800, 600>>}

\* image extents handed to the formatting
FormatExtents == {<<1920, 1080>>, <<1080, 1920>>, <<1000, 800>>}

\* a ruler point at an image position, clicked on an image shown at half size
HalfSizePoint(pt) ==
    [x |-> pt[1] \div 2, y |-> pt[2] \div 2,
     imageX |-> Num(pt[1]), imageY |-> Num(pt[2])]

\* the ruler point collections: at most two points
RulerCollections ==
    LET P == {HalfSizePoint(pt) : pt \in {<<0, 0>>, <<300, 400>>, <<600, 800>>}}
    IN  {<<>>} \cup {<<p>> : p \in P} \cup {<<p, q>> : p \in P, q \in P}

\* values handed to the formatter: none of them on a rounding tie of any
\* format under FormatExtents
FormatValues ==
    {Frac(0, 1), Frac(123456, 1000), Frac(2998, 10), Frac(300, 1),
     Frac(800, 1), Frac(-123456, 1000)}

\* points handed to formatCoordinatePair
FormatPoints ==
    {[x |-> Frac(123456, 1000), y |-> Frac(300, 1)],
     [x |-> Frac(300, 1), y |-> Frac(2998, 10)],
     [x |-> Frac(800, 1), y |-> Frac(800, 1)],
     [x |-> Frac(0, 1), y |-> Frac(-123456, 1000)]}

\* the axis argument: "none" is undefined
FormatAxes == {"x", "y", "none"}

\* the extents of FormatExtents, and an image without extents
AnyExtents == FormatExtents \cup {<<0, 0>>}

\* detections handed to renderBoundingBox: one as the detector builds it,
\* one whose top right vertex is off its bounding box
RenderedDetections ==
    {MkDetection(1, 100, 200, 300, 400, TRUE),
     [MkDetection(2, 100, 200, 300, 400, FALSE)
         EXCEPT !.vertices.top_right = [x |-> 350, y |-> 180]]}

\* scale factors of a render: the initial pair, and those of 1200 x 900 and
\* 1920 x 1080 images
RenderFactors ==
    {[x |-> Frac(1, 1), y |-> Frac(1, 1)], [x |-> Frac(2, 3), y |-> Frac(2, 3)],
     [x |-> Frac(1067, 1920), y |-> Frac(5, 9)]}

CallGetScaledDimensions(w, h, exact) ==
    /\ call' = <<"getScaledDimensions", w, h, exact>>
    /\ returned' = Some(getScaledDimensions(w, h, exact))
    /\ UNCHANGED appVars

CallGetImageCoordinates(pt, ref, ext) ==
    /\ call' = <<"getImageCoordinates", pt, ref, ext>>
    /\ returned' = Some(getImageCoordinatesAt(pt[1], pt[2], ref, ext[1], ext[2]))
    /\ UNCHANGED appVars

CallRulerDistance(points, format, ext) ==
    /\ call' = <<"rulerDistance", points, format, ext>>
    /\ returned' = Some(rulerDistanceDisplay(points, format, ext[1], ext[2]))
    /\ UNCHANGED appVars

\* a formatCoordinate that stores the format it was called under
CallFormatCoordinate_SetsFormat(value, axis, format, ext) ==
    /\ call' = <<"formatCoordinate", value, axis, format, ext>>
    /\ returned' = Some(formatCoordinate(value, axis, format, ext[1], ext[2]))
    /\ coordinateFormat' = format
    /\ UNCHANGED <<uploadVars, selectedDetectionId, hoveredDetection,
                   tooltipData, coordinatePopup, rulerMode, rulerPoints,
                   mousePosition, clipVars, exactDimensions, scaleVars,
                   crashed, before, discarded, searchVars>>

CallFormatCoordinate(value, axis, format, ext) ==
    /\ call' = <<"formatCoordinate", value, axis, format, ext>>
    /\ returned' = Some(formatCoordinate(value, axis, format, ext[1], ext[2]))
    /\ UNCHANGED appVars

CallFormatCoordinatePair(point, format, ext) ==
    /\ call' = <<"formatCoordinatePair", point, format, ext>>
    /\ returned' = Some(formatCoordinatePair(point, format, ext[1], ext[2]))
    /\ UNCHANGED appVars

CallRenderBoundingBox(d, factors) ==
    /\ call' = <<"renderBoundingBox", d, factors>>
    /\ returned' = Some(pathData(d, factors))
    /\ UNCHANGED appVars

\* handler answering every method as it answers GET
handler_AllowsAll(method, uptime) ==
    [statusCode |-> 200,
     Allow |-> Null,
     body |-> [status |-> "healthy", uptime |-> uptime,
               frontend |-> "Next.js application running"]]

\* the health route: what it has written to res when it returns
handler(method, uptime) ==
    IF method # Some("GET")
    THEN [statusCode |-> 405,
          Allow |-> Some(<<"GET">>),
          body |-> [status |-> "error", uptime |-> uptime,
                    frontend |-> "Method not allowed"]]
    ELSE [statusCode |-> 200,
          Allow |-> Null,
          body |-> [status |-> "healthy", uptime |-> uptime,
                    frontend |-> "Next.js application running"]]

\* req.method: a string, or undefined
Methods ==
    {Null, Some("GET"), Some("HEAD"), Some("POST"), Some("PUT"),
     Some("DELETE"), Some("OPTIONS"), Some("PATCH"), Some("get")}

\* process.uptime(), in seconds
Uptimes == {0, 1, 3600}

CallHandler(method, uptime) ==
    /\ call' = <<"handler", method, uptime>>
    /\ returned' = Some(handler(method, uptime))
    /\ UNCHANGED appVars

BenchNext ==
    \/ \E w \in Widths, h \in Heights, exact \in BOOLEAN :
          CallGetScaledDimensions(w, h, exact)
    \/ \E pt \in ClientPoints, ref \in ImageRefs, ext \in ImageExtents :
          CallGetImageCoordinates(pt, ref, ext)
    \/ \E points \in RulerCollections, format \in CoordinateFormats,
          ext \in FormatExtents :
          CallRulerDistance(points, format, ext)
    \/ \E value \in FormatValues, axis \in FormatAxes,
          format \in CoordinateFormats, ext \in AnyExtents :
          CallFormatCoordinate(value, axis, format, ext)
    \/ \E point \in FormatPoints, format \in CoordinateFormats,
          ext \in AnyExtents :
          CallFormatCoordinatePair(point, format, ext)
    \/ \E d \in RenderedDetections, factors \in RenderFactors :
          CallRenderBoundingBox(d, factors)
    \/ \E method \in Methods, uptime \in Uptimes : CallHandler(method, uptime)

BenchSpec == Init /\ [][BenchNext]_vars

----------------------------------------------------------------------------
(* The overlay under a parent that changes its props *)

\* image extents a parent passes
OverlayExtents == {<<1200, 900>>, <<800, 600>>, <<1920, 1080>>}

OverlayProps(ext) ==
    [detections |-> ResultB.detections \o
                       <<MkDetection(2, 100, 200, 300, 400, FALSE)>>,
     image_dimensions |-> [width |-> ext[1], height |-> ext[2]],
     annotated_image_base64 |-> Some("B")]

\* the first render of an overlay a parent has mounted
OverlayMounted ==
    /\ imageData = Some("a.png")
    /\ isLoading = FALSE
    /\ error = Null
    /\ isDetecting = FALSE
    /\ detectionResults \in {Some(OverlayProps(ext)) : ext \in OverlayExtents}
    /\ detectionError = Null
    /\ objects = <<>>
    /\ loadingFile = Null
    /\ pending = 0
    /\ selectedDetectionId = Null
    /\ hoveredDetection = OverlayInit.hoveredDetection
    /\ tooltipData = OverlayInit.tooltipData
    /\ coordinatePopup = OverlayInit.coordinatePopup
    /\ coordinateFormat = OverlayInit.coordinateFormat
    /\ rulerMode = OverlayInit.rulerMode
    /\ rulerPoints = OverlayInit.rulerPoints
    /\ mousePosition = OverlayInit.mousePosition
    /\ copiedCoordinate = OverlayInit.copiedCoordinate
    /\ writes = <<>>
    /\ timers = <<>>
    /\ exactDimensions \in BOOLEAN
    /\ displayDimensions = OverlayInit.displayDimensions
    /\ scaleFactors = OverlayInit.scaleFactors
    /\ effectPending = TRUE
    /\ crashed = FALSE
    /\ call = <<>>
    /\ returned = Null
    /\ recentSearches = <<>>
    /\ saves = 0
    /\ before = Summary
    /\ discarded = Null

\* the parent renders the overlay again with other imageWidth, imageHeight
\* or exactDimensions: the state is kept, the effect runs if a dependency
\* changed
SetProps(ext, exact) ==
    /\ overlayMounted /\ settled
    /\ detectionResults' = Some(OverlayProps(ext))
    /\ exactDimensions' = exact
    /\ effectPending' = (deps' # deps)
    /\ UNCHANGED <<imageData, isLoading, error, isDetecting, detectionError,
                   objects, loadingFile, pending, selectedDetectionId,
                   overlayVars, clipVars, displayDimensions, scaleFactors,
                   crashed, call, returned, before, discarded,
                   searchVars>>

OverlayNext ==
    \/ \E ext \in OverlayExtents, exact \in BOOLEAN : SetProps(ext, exact)
    \/ RunEffect
    \/ Resize
    \/ ImageLoad
    \/ \E e \in MouseEvents : MouseMove(e)
    \/ \E e \in MouseEvents : ClickBackground(e)
    \/ ToggleRuler
    \/ ClickClear

OverlaySpec == OverlayMounted /\ [][OverlayNext]_vars

----------------------------------------------------------------------------
(* The upload component: of the results it renders, only the cards and the *)
(* format buttons are used                                                  *)

UploadNext ==
    \/ \E file \in Files : FileSelect(file)
    \/ FileLoaded
    \/ RemoveImage
    \/ \E objs \in ObjectLists : ObjectsChange(objs)
    \/ DetectObjects
    \/ DetectCall
    \/ \E results \in ResultSets : FetchResolved(results)
    \/ \E errorMessage \in FetchFailures : FetchFailed(errorMessage)
    \/ RunEffect
    \/ \E d \in Cards : CardClick(d)
    \/ \E format \in CoordinateFormats : SetCoordinateFormat(format)

UploadSpec == Init /\ [][UploadNext]_vars

\* the promise of a fetch settles: it resolves or it rejects
FetchSettles ==
    \/ \E results \in ResultSets : FetchResolved(results)
    \/ \E errorMessage \in FetchFailures : FetchFailed(errorMessage)

UploadLiveSpec == UploadSpec /\ WF_vars(FetchSettles) /\ WF_vars(RunEffect)

----------------------------------------------------------------------------
(* The recent searches of ObjectSelection *)

maxRecentSearches == 10

\* objects.join(', ')
RECURSIVE join(_)
join(objs) ==
    IF Len(objs) = 0 THEN ""
    ELSE IF Len(objs) = 1 THEN objs[1]
    ELSE objs[1] \o ", " \o join(Tail(objs))

\* recentSearches.filter(s => s !== searchString)
filterOut(recent, searchString) ==
    SelectSeq(recent, LAMBDA s : s # searchString)

\* array.slice(0, n)
slice(array, n) ==
    IF Len(array) <= n THEN array ELSE SubSeq(array, 1, n)

\* saveToRecentSearches without the filter
saveToRecentSearches_NoFilter(recent, objs) ==
    IF Len(objs) = 0 THEN recent
    ELSE slice(<<join(objs)>> \o recent, maxRecentSearches)

\* the list that saveToRecentSearches sets and stores
saveToRecentSearches(recent, objs) ==
    IF Len(objs) = 0 THEN recent
    ELSE LET searchString == join(objs)
         IN  slice(<<searchString>> \o filterOut(recent, searchString),
                   maxRecentSearches)

\* searches saved earlier, the latest first
StoredSearches ==
    <<"person", "car", "dog", "cat", "bird", "horse", "sheep", "cow", "bus",
      "truck">>

\* what localStorage can hold when the component mounts: the first k searches
\* of StoredSearches, which saving them one by one from the k-th back leaves
StoredLists == {SubSeq(StoredSearches, 1, k) : k \in 0..Len(StoredSearches)}

\* object lists handed to saveToRecentSearches: none, the head of the stored
\* list, one in its middle, its last, and two that are not stored
SavedObjects ==
    {<<>>, <<"person">>, <<"bird">>, <<"truck">>, <<"boat">>, <<"cat", "dog">>}

\* the component mounted and its effect loaded the stored list
SearchesLoaded ==
    /\ imageData = Some("a.png")
    /\ isLoading = FALSE
    /\ error = Null
    /\ isDetecting = FALSE
    /\ detectionResults = Null
    /\ detectionError = Null
    /\ objects = <<>>
    /\ loadingFile = Null
    /\ pending = 0
    /\ selectedDetectionId = Null
    /\ hoveredDetection = OverlayInit.hoveredDetection
    /\ tooltipData = OverlayInit.tooltipData
    /\ coordinatePopup = OverlayInit.coordinatePopup
    /\ coordinateFormat = OverlayInit.coordinateFormat
    /\ rulerMode = OverlayInit.rulerMode
    /\ rulerPoints = OverlayInit.rulerPoints
    /\ mousePosition = OverlayInit.mousePosition
    /\ copiedCoordinate = OverlayInit.copiedCoordinate
    /\ writes = <<>>
    /\ timers = <<>>
    /\ exactDimensions = FALSE
    /\ displayDimensions = OverlayInit.displayDimensions
    /\ scaleFactors = OverlayInit.scaleFactors
    /\ effectPending = FALSE
    /\ crashed = FALSE
    /\ call = <<>>
    /\ returned = Null
    /\ recentSearches \in StoredLists
    /\ saves = 0
    /\ before = Summary
    /\ discarded = Null

SaveToRecentSearches(objs) ==
    /\ saves < MaxSaves
    /\ saves' = saves + 1
    /\ recentSearches' = saveToRecentSearches(recentSearches, objs)
    /\ UNCHANGED <<uploadVars, selectedDetectionId, overlayVars, clipVars,
                   exactDimensions, scaleVars, crashed, before, discarded,
                   call, returned>>

clearRecentSearches ==
    /\ recentSearches # <<>>
    /\ recentSearches' = <<>>
    /\ UNCHANGED <<uploadVars, selectedDetectionId, overlayVars, clipVars,
                   exactDimensions, scaleVars, crashed, before, discarded,
                   call, returned, saves>>

SearchNext ==
    \/ \E objs \in SavedObjects : SaveToRecentSearches(objs)
    \/ clearRecentSearches

SearchSpec == SearchesLoaded /\ [][SearchNext]_vars

----------------------------------------------------------------------------
(* The clipboard, with the popup of a detection open *)

\* ResultA is rendered and detection 1 has been clicked at (30, 40)
PopupOpened ==
    /\ imageData = Some("a.png")
    /\ isLoading = FALSE
    /\ error = Null
    /\ isDetecting = FALSE
    /\ detectionResults = Some(ResultA)
    /\ detectionError = Null
    /\ objects = <<"cat">>
    /\ loadingFile = Null
    /\ pending = 0
    /\ selectedDetectionId = Some(1)
    /\ hoveredDetection = Null
    /\ tooltipData = Null
    /\ coordinatePopup =
          Some([detection |-> ResultA.detections[1], x |-> 30, y |-> 40])
    /\ coordinateFormat = "pixels"
    /\ rulerMode = FALSE
    /\ rulerPoints = <<>>
    /\ mousePosition = Null
    /\ copiedCoordinate = Null
    /\ writes = <<>>
    /\ timers = <<>>
    /\ exactDimensions = FALSE
    /\ displayDimensions = [width |-> 800, height |-> 600]
    /\ scaleFactors = [x |-> Frac(2, 3), y |-> Frac(2, 3)]
    /\ effectPending = FALSE
    /\ crashed = FALSE
    /\ call = <<>>
    /\ returned = Null
    /\ recentSearches = <<>>
    /\ saves = 0
    /\ before = [hovered |-> FALSE, popupOpen |-> FALSE, rulerMode |-> FALSE,
                 rulerLen |-> 0]
    /\ discarded = Null

ClipboardNext ==
    \/ \E label \in CopyLabels : ClickCopy(label)
    \/ \E i \in DOMAIN writes : WriteResolved(i)
    \/ \E i \in DOMAIN writes : WriteRejected(i)
    \/ TimerFires
    \/ \E d \in Shapes, e \in MouseEvents : ClickShape(d, e)
    \/ ClosePopup

ClipboardSpec == PopupOpened /\ [][ClipboardNext]_vars

\* the event loop runs the callback of a timeout that is due
ClipboardLiveSpec == ClipboardSpec /\ WF_vars(TimerFires)

----------------------------------------------------------------------------
(* The application; the steps of copyToClipboard are explored in           *)
(* ClipboardSpec                                                            *)

Next ==
    \/ \E file \in Files : FileSelect(file)
    \/ FileLoaded
    \/ RemoveImage
    \/ \E objs \in ObjectLists : ObjectsChange(objs)
    \/ DetectObjects
    \/ \E results \in ResultSets : FetchResolved(results)
    \/ \E errorMessage \in FetchFailures : FetchFailed(errorMessage)
    \/ \E d \in Shapes : MouseEnterShape(d)
    \/ \E e \in MouseEvents : MouseMove(e)
    \/ MouseLeave
    \/ \E d \in Shapes, e \in MouseEvents : ClickShape(d, e)
    \/ \E e \in MouseEvents : ClickBackground(e)
    \/ \E format \in CoordinateFormats : SetCoordinateFormat(format)
    \/ ToggleRuler
    \/ ClickClear
    \/ ClosePopup
    \/ \E d \in Cards : CardClick(d)
    \/ RunEffect
    \/ Resize
    \/ ImageLoad

Spec == Init /\ [][Next]_vars

----------------------------------------------------------------------------------------------------------------------------------------
(* Properties *)

Fresh ==
    /\ selectedDetectionId = Null
    /\ hoveredDetection = Null
    /\ tooltipData = Null
    /\ coordinatePopup = Null
    /\ rulerPoints = <<>>

\* C1: the step that delivers a new detection set (or a new image) ends in a
\* state whose interaction state is reset: no selection, no hover, no tooltip,
\* no popup, no ruler points, whatever they were before.
C1_NewSetResetsInteraction ==
    [][(\/ detectionResults' # Null /\ detectionResults' # detectionResults
        \/ imageData' # Null /\ imageData' # imageData) => Fresh']_vars

\* a second set has just been rendered, after detection 2 was selected and
\* hovered, its popup open and the ruler held one point
C1_Witness ==
    /\ detectionResults = Some(ResultB)
    /\ ~isDetecting
    /\ discarded = Some([selectedId |-> Some(2), hoveredId |-> Some(2),
                         popupOpen |-> TRUE, rulerLen |-> 1])
    /\ Fresh

\* C2: the ruler never holds more than 2 points.
C2_RulerAtMostTwo == Len(rulerPoints) <= 2

\* the second point has just been placed
C2_Witness ==
    rulerMode /\ Len(rulerPoints) = 2 /\ before.rulerMode /\ before.rulerLen = 1

\* C3: a ruler-mode click that reaches the svg's handler with 2 stored points
\* leaves exactly the new point; with 0 or 1 stored points it appends it.
C3_OverflowResets ==
    [][\A e \in MouseEvents :
          ClickBackground(e) /\ rulerMode =>
             rulerPoints' = IF Len(rulerPoints) = 2 THEN <<newPoint(e)>>
                            ELSE Append(rulerPoints, newPoint(e))]_vars

\* the third click has just been made
C3_Witness ==
    /\ before.rulerMode /\ before.rulerLen = 2
    /\ rulerMode /\ Len(rulerPoints) = 1

\* C4: in every ruler-mode state a click on the background, and a click on
\* any detection shape, adds the point of the click, with the mapper's image
\* coordinates, to the ruler.
C4_AnyRulerClickAddsPoint ==
    overlayMounted /\ rulerMode =>
       \A e \in MouseEvents :
          LET added == IF Len(rulerPoints) = 2 THEN <<newPoint(e)>>
                       ELSE Append(rulerPoints, newPoint(e))
          IN  /\ clickBackground(e).rulerPoints = added
              /\ \A d \in Shapes : clickShape(d, e).rulerPoints = added

\* C5: the ruler toggle flips the mode; turning it on empties the points,
\* turning it off keeps them, and while the mode is off the points of a mounted
\* overlay change only by the toggle or by Clear.
C5_ToggleClearsOnlyWhenTurningOn ==
    [][/\ ToggleRuler =>
            /\ rulerMode' = ~rulerMode
            /\ rulerPoints' = IF rulerMode THEN rulerPoints ELSE <<>>
       /\ (~rulerMode /\ overlayMounted /\ overlayMounted'
             /\ rulerPoints' # rulerPoints) => ToggleRuler \/ ClickClear]_vars

\* the mode has just been re-entered with two points that the earlier
\* turn-off had kept
C5_Witness ==
    /\ ~before.rulerMode /\ before.rulerLen = 2
    /\ rulerMode /\ rulerPoints = <<>>

\* C6: with ruler mode off, a click on a shape opens the popup of that
\* detection at the click position (relative to the container) and selects the
\* detection; the background handler does not undo it.
C6_ShapeClickOpensPopup ==
    [][\A d \in Shapes, e \in MouseEvents :
          ClickShape(d, e) /\ ~rulerMode =>
             /\ coordinatePopup' = Some([detection |-> d,
                                         x |-> e.clientX - e.rect.left,
                                         y |-> e.clientY - e.rect.top])
             /\ selectedDetectionId' = Some(d.id)]_vars

\* the popup of detection 2 has just been opened by a click
C6_Witness ==
    /\ ~rulerMode /\ ~before.popupOpen
    /\ coordinatePopup # Null
    /\ Val(coordinatePopup).detection.id = 2
    /\ Val(coordinatePopup).x = 60 /\ Val(coordinatePopup).y = 80
    /\ selectedDetectionId = Some(2)

\* C7: with ruler mode off, a click on the background closes the popup and
\* clears the selection, and changes neither the ruler points, the ruler
\* mode, the hovered id nor the coordinate format.
C7_BackgroundClickDeselects ==
    [][\A e \in MouseEvents :
          ClickBackground(e) /\ ~rulerMode =>
             /\ coordinatePopup' = Null
             /\ selectedDetectionId' = Null
             /\ UNCHANGED <<rulerPoints, rulerMode, hoveredDetection,
                            coordinateFormat>>]_vars

\* an open popup has just been closed together with the selection, with two
\* ruler points, a hovered detection and a non-default format in place
C7_Witness ==
    /\ overlayMounted
    /\ before.popupOpen /\ ~before.rulerMode
    /\ ~rulerMode /\ coordinatePopup = Null /\ selectedDetectionId = Null
    /\ Len(rulerPoints) = 2 /\ hoveredDetection # Null
    /\ coordinateFormat = "normalized"

C9_MouseLeaveClearsHover ==
    [][MouseLeave =>
          /\ hoveredDetection' = Null
          /\ tooltipData' = Null
          /\ mousePosition' = Null
          /\ UNCHANGED <<selectedDetectionId, coordinatePopup, rulerMode,
                         rulerPoints>>]_vars

\* the pointer has just left while a detection was hovered, with a selection,
\* a popup and a ruler point in place
C9_Witness ==
    /\ overlayMounted
    /\ before.hovered
    /\ hoveredDetection = Null /\ tooltipData = Null /\ mousePosition = Null
    /\ selectedDetectionId # Null /\ coordinatePopup # Null
    /\ rulerMode /\ Len(rulerPoints) = 1

\* C10: entering a shape makes its detection the hovered one, and every
\* pointer move while a detection is hovered sets the tooltip to that
\* detection, at the pointer's position relative to the container.
C10_TooltipFollowsPointer ==
    [][/\ \A d \in Shapes : MouseEnterShape(d) => hoveredDetection' = Some(d.id)
       /\ \A e \in MouseEvents :
            MouseMove(e) /\ hoveredDetection # Null =>
               \E d \in DetectionSet :
                  /\ d.id = Val(hoveredDetection)
                  /\ tooltipData' = Some([detection |-> Some(d),
                                          x |-> e.clientX - e.rect.left,
                                          y |-> e.clientY - e.rect.top])]_vars

\* the tooltip of detection 2 is at the pointer's second position
C10_Witness ==
    /\ before.hovered
    /\ hoveredDetection = Some(2)
    /\ tooltipData # Null
    /\ Val(tooltipData).detection = Some(detections[2])
    /\ Val(tooltipData).x = 60 /\ Val(tooltipData).y = 80

\* C11: a pointer-enter on a detection shape sets the hovered id to that
\* detection and changes neither the selection, the popup, the tooltip, the
\* ruler mode, the ruler points, the coordinate format nor the scaling state.
C11_EnterChangesOnlyHover ==
    [][\A d \in Shapes :
          MouseEnterShape(d) =>
             /\ hoveredDetection' = Some(d.id)
             /\ UNCHANGED <<selectedDetectionId, coordinatePopup, tooltipData,
                            rulerMode, rulerPoints, coordinateFormat,
                            scaleFactors, displayDimensions>>]_vars

\* the pointer has entered detection 2 while the tooltip still shows
\* detection 1, with a selection, a popup, a ruler point, a non-default
\* format and a scale of 2/3 in place
C11_Witness ==
    /\ overlayMounted
    /\ hoveredDetection = Some(2)
    /\ tooltipData # Null
    /\ Val(tooltipData).detection = Some(detections[1])
    /\ selectedDetectionId = Some(1)
    /\ coordinatePopup # Null
    /\ rulerMode /\ Len(rulerPoints) = 1
    /\ coordinateFormat = "percentage"
    /\ scaleFactors = [x |-> Frac(2, 3), y |-> Frac(2, 3)]

\* the number of decimals and the suffix a format gives a text
UsesFormat(t, format) ==
    /\ t.decimals = (IF format = "pixels" THEN 0
                     ELSE IF format = "percentage" THEN 1 ELSE 3)
    /\ t.suffix = (IF format = "percentage" THEN "%" ELSE "")

\* C12: a format button sets coordinateFormat to its format and changes
\* nothing else (the detections, the ruler points, the selection, the hover,
\* the popup and the ruler mode stay), and every coordinate text of a render
\* (mouse readout, tooltip, popup, ruler distance) is written in the format
\* of that render's state, so in the new one right after the switch.
C12_FormatSwitchIsPure ==
    /\ [][\A format \in CoordinateFormats :
            SetCoordinateFormat(format) =>
               /\ coordinateFormat' = format
               /\ UNCHANGED <<detectionResults, rulerPoints,
                              selectedDetectionId, hoveredDetection,
                              tooltipData, coordinatePopup, rulerMode,
                              mousePosition, scaleFactors>>]_vars
    /\ [](/\ \A t \in RenderedTexts : UsesFormat(t, coordinateFormat)
          /\ RulerUnit = (IF coordinateFormat = "pixels" THEN "px"
                          ELSE IF coordinateFormat = "percentage" THEN "%"
                          ELSE "units"))

\* the normalized format is on with a mouse readout, a tooltip, a popup and
\* a ruler distance of 75 image pixels (0.063 of 1200) on screen
C12_Witness ==
    /\ overlayMounted
    /\ coordinateFormat = "normalized"
    /\ imageWidth = 1200
    /\ mousePosition # Null /\ tooltipData # Null /\ coordinatePopup # Null
    /\ RulerDistance = {Text(63, 3, "")}
    /\ Text(63, 3, "") \in RenderedTexts

\* the last call was getScaledDimensions(w, h, exact)
Scaled == call # <<>> /\ call[1] = "getScaledDimensions"

\* C13: getScaledDimensions returns the extents unchanged when
\* exactDimensions is true, and otherwise unchanged when the height is at
\* most maxHeight; otherwise the height is maxHeight and the width is the
\* integer nearest to maxHeight * width / height.
C13_ScaledDimensions ==
    Scaled =>
       LET w == call[2]
           h == call[3]
           r == Val(returned)
       IN  IF call[4] \/ h <= maxHeight
           THEN r = [width |-> w, height |-> h]
           ELSE /\ r.height = maxHeight
                /\ 2 * r.width * h - 2 * maxHeight * w > -h
                /\ 2 * r.width * h - 2 * maxHeight * w <= h

\* 1920 x 1080 came out as 1067 x 600
C13_Witness ==
    /\ call = <<"getScaledDimensions", 1920, 1080, FALSE>>
    /\ returned = Some([width |-> 1067, height |-> 600])

\* C14 as stated: the height is at most maxHeight unless exactDimensions is
\* true, and the width is within 1 of maxHeight * width / height, for all
\* extents.
C14_WidthNearMaxHeightRatio ==
    Scaled =>
       LET w == call[2]
           h == call[3]
           r == Val(returned)
       IN  /\ call[4] \/ r.height <= maxHeight
           /\ Abs(r.width * h - maxHeight * w) <= h

\* C14: the height is at most maxHeight unless exactDimensions is true, and
\* the width is within 1 of (returned height) * width / height: the aspect
\* ratio is kept within rounding.
C14_AspectRatioKept ==
    Scaled =>
       LET w == call[2]
           h == call[3]
           r == Val(returned)
       IN  /\ call[4] \/ r.height <= maxHeight
           /\ Abs(r.width * h - r.height * w) <= h

\* 1000 x 601 came out as 998 x 600 (600 * 1000 / 601 is 998.3)
C14_Witness ==
    /\ call = <<"getScaledDimensions", 1000, 601, FALSE>>
    /\ returned = Some([width |-> 998, height |-> 600])

\* the last call was getImageCoordinates
Mapped == call # <<>> /\ call[1] = "getImageCoordinates"

\* C18: getImageCoordinates returns x = (clientX - rect.left) / rect.width *
\* imageWidth and y = (clientY - rect.top) / rect.height * imageHeight for
\* the image's bounding rect, and {0, 0} when there is no image element.
C18_ImageCoordinates ==
    Mapped =>
       LET pt == call[2]
           ref == call[3]
           ext == call[4]
           r == Val(returned)
       IN  IF ref = Null
           THEN r.x.n = 0 /\ r.y.n = 0
           ELSE /\ r.x.n * Val(ref).width = (pt[1] - Val(ref).left) * ext[1] * r.x.d
                /\ r.y.n * Val(ref).height = (pt[2] - Val(ref).top) * ext[2] * r.y.d

\* the middle of an 800 x 600 rect at (8, 16) mapped to the middle of a
\* 1200 x 900 image
C18_Witness ==
    /\ call = <<"getImageCoordinates", <<408, 316>>,
                Some([left |-> 8, top |-> 16, width |-> 800, height |-> 600]),
                <<1200, 900>>>>
    /\ returned = Some([x |-> [n |-> 600, d |-> 1], y |-> [n |-> 450, d |-> 1]])

\* C15: in every state in which the overlay is rendered, the first render
\* after mount included, the scale factors the shapes are drawn with are the
\* displayed extents divided by the image extents, and are {1, 1} when
\* exactDimensions is true.
C15_ScaleFactorsMatchDisplay ==
    overlayMounted =>
       /\ scaleFactors = [x |-> Frac(scaledDimensions.width, imageWidth),
                          y |-> Frac(scaledDimensions.height, imageHeight)]
       /\ exactDimensions => scaleFactors = [x |-> Frac(1, 1), y |-> Frac(1, 1)]

\* a step that recomputes the scaling state
Recompute == RunEffect \/ Resize \/ ImageLoad

\* C16: however prop changes, resizes, image loads and pointer events
\* interleave, a recomputation writes both scale factors from the same props
\* (displayed extents / image extents, or {1, 1} with exactDimensions), and no
\* other step changes the pair: a render reads the pair of the last completed
\* recomputation, never x of one and y of another.
C16_LastWriteWins ==
    [][/\ Recompute =>
            scaleFactors' =
               IF exactDimensions THEN [x |-> Frac(1, 1), y |-> Frac(1, 1)]
               ELSE [x |-> Frac(scaledDimensions.width, imageWidth),
                     y |-> Frac(scaledDimensions.height, imageHeight)]
       /\ scaleFactors' # scaleFactors => Recompute]_vars

\* the factors of a 1920 x 1080 image were written after a ruler click and
\* a mouse move made under the factors of a 1200 x 900 image
C16_Witness ==
    /\ overlayMounted /\ settled
    /\ imageWidth = 1920 /\ ~exactDimensions
    /\ scaleFactors = [x |-> Frac(1067, 1920), y |-> Frac(5, 9)]
    /\ Len(rulerPoints) = 1
    /\ rulerPoints[1].imageX = Frac(45, 1)
    /\ mousePosition = Some([x |-> Frac(90, 1), y |-> Frac(120, 1)])

\* C17: a resize or an image load delivered with unchanged props leaves
\* displayDimensions and scaleFactors as they were.
C17_RecomputationIdempotent ==
    [][Resize \/ ImageLoad => UNCHANGED <<displayDimensions, scaleFactors>>]_vars

\* the effect has run for a 1920 x 1080 image and the listener is registered
C17_Witness ==
    /\ overlayMounted /\ settled
    /\ imageWidth = 1920 /\ imageHeight = 1080 /\ ~exactDimensions
    /\ displayDimensions = [width |-> 1067, height |-> 600]
    /\ scaleFactors.x = Frac(1067, 1920)

\* C19: in every state whose scale factors the scaling has produced, every
\* pointer position inside the surface, mapped to image space by
\* getImageCoordinates and back by the scale factors, is within 0.01 of
\* itself on both axes.
C19_RoundTrip ==
    overlayMounted /\ settled =>
       \A e \in MouseEvents :
          LET back == toDisplaySpace(getImageCoordinates(e), scaleFactors)
              px == e.clientX - imageRect(e).left
              py == e.clientY - imageRect(e).top
          IN  /\ 100 * Abs(back.x.n - px * back.x.d) <= back.x.d
              /\ 100 * Abs(back.y.n - py * back.y.d) <= back.y.d

\* the pointer at (60, 80) of a 1920 x 1080 image shown 1067 x 600 has been
\* mapped to image space
C19_Witness ==
    /\ overlayMounted /\ settled
    /\ imageWidth = 1920 /\ ~exactDimensions
    /\ scaleFactors.x = Frac(1067, 1920)
    /\ mousePosition = Some([x |-> Frac(60 * 1920, 1067), y |-> Frac(144, 1)])

\* C20: every primitive of a settled render is drawn at its image-space point
\* times the current scale factors: the corners and the crosshair of each
\* detection, and the marker of each ruler point, also after the factors have
\* changed.
C20_DrawnAtScaledImagePoint ==
    overlayMounted /\ settled =>
       /\ \A d \in DetectionSet :
             /\ drawnCrosshair(d) =
                   toDisplaySpace(NumPoint(d.center_point), scaleFactors)
             /\ toDisplaySpace(NumPoint(d.vertices.top_left), scaleFactors)
                   \in drawnVertices(d)
       /\ \A i \in DOMAIN rulerPoints :
             drawnRulerMarker(rulerPoints[i]) =
                toDisplaySpace([x |-> rulerPoints[i].imageX,
                                y |-> rulerPoints[i].imageY], scaleFactors)

\* a step that changes, or may change, the scale the overlay draws with
ScaleChange ==
    \/ \E ext \in OverlayExtents, exact \in BOOLEAN : SetProps(ext, exact)
    \/ Recompute

\* two ruler points are stored and their image coordinates are whole numbers
WholePoints ==
    /\ Len(rulerPoints) = 2
    /\ \A i \in 1..2 : rulerPoints[i].imageX.d = 1 /\ rulerPoints[i].imageY.d = 1

\* C21: the measured distance is the root of dx^2 + dy^2 over imageX and
\* imageY of the two stored points, whatever their display coordinates and
\* the scale factors are, and no change of scale (new props, effect, resize,
\* image load) between or after the two clicks changes it.
C21_DistanceInImageSpace ==
    /\ [][ScaleChange /\ WholePoints =>
             distanceSquared(rulerPoints[1], rulerPoints[2])' =
                distanceSquared(rulerPoints[1], rulerPoints[2])]_vars
    /\ [](overlayMounted /\ WholePoints =>
             LET dx == rulerPoints[2].imageX.n - rulerPoints[1].imageX.n
                 dy == rulerPoints[2].imageY.n - rulerPoints[1].imageY.n
             IN  distanceSquared(rulerPoints[1], rulerPoints[2]) =
                    Num(dx * dx + dy * dy))

\* the first point was clicked at (30, 40) of a 1200 x 900 image shown
\* 800 x 600, the second at (60, 80) under exactDimensions, and the overlay
\* now shows an 800 x 600 image: the points are 25 apart
C21_Witness ==
    /\ overlayMounted /\ settled
    /\ imageWidth = 800
    /\ WholePoints
    /\ rulerPoints[1].x = 30 /\ rulerPoints[1].imageX = Num(45)
    /\ rulerPoints[1].imageY = Num(60)
    /\ rulerPoints[2].x = 60 /\ rulerPoints[2].imageX = Num(60)
    /\ rulerPoints[2].imageY = Num(80)
    /\ distanceSquared(rulerPoints[1], rulerPoints[2]) = Num(625)

\* the last call rendered the distance span for a ruler point collection
Measured == call # <<>> /\ call[1] = "rulerDistance"

\* C22: the distance is rendered exactly when the collection holds two
\* points; it is the distance of the image points, as an integer in pixels
\* format and divided by max(imageWidth, imageHeight) in the other two
\* (three decimals normalized, one decimal of the hundredfold percentage).
\* (0,0) and (300,400) on 1920 x 1080 give 500 and 0.260.
C22_RulerDistanceShown ==
    Measured =>
       LET points == call[2]
           format == call[3]
           w == call[4][1]
           h == call[4][2]
           m == IF w >= h THEN w ELSE h
           shown == Val(returned)
       IN  /\ shown # Null <=> Len(points) = 2
           /\ Len(points) = 2 =>
                 LET dx == points[2].imageX.n - points[1].imageX.n
                     dy == points[2].imageY.n - points[1].imageY.n
                     dist == CHOOSE r \in 0..2000 : r * r = dx * dx + dy * dy
                     t == Val(shown).text
                 IN  /\ format = "pixels" => t = Text(dist, 0, "")
                     /\ format = "normalized" =>
                           /\ t.decimals = 3 /\ t.suffix = ""
                           /\ Abs(2000 * dist - 2 * t.digits * m) <= m
                     /\ format = "percentage" =>
                           /\ t.decimals = 1 /\ t.suffix = "%"
                           /\ Abs(2000 * dist - 2 * t.digits * m) <= m
           /\ /\ points = <<HalfSizePoint(<<0, 0>>), HalfSizePoint(<<300, 400>>)>>
              /\ call[4] = <<1920, 1080>>
              => /\ format = "pixels" => Val(shown).text = Text(500, 0, "")
                 /\ format = "normalized" => Val(shown).text = Text(260, 3, "")

\* (0,0) and (300,400) on a 1920 x 1080 image were shown as 0.260 units
C22_Witness ==
    /\ call = <<"rulerDistance",
                <<HalfSizePoint(<<0, 0>>), HalfSizePoint(<<300, 400>>)>>,
                "normalized", <<1920, 1080>>>>
    /\ returned = Some(Some([text |-> Text(260, 3, ""), unit |-> "units"]))

\* the last call was formatCoordinate(value, axis) under a format and extents
Formatted == call # <<>> /\ call[1] = "formatCoordinate"

\* the text t shows the real n / d to t.decimals decimals, rounded to nearest
Shows(t, n, d) ==
    LET unit == IF t.decimals = 0 THEN 1 ELSE IF t.decimals = 1 THEN 10 ELSE 1000
    IN  2 * Abs(t.digits * d - unit * n) <= d

\* C23: an x-tagged value is rendered in pixels format as the nearest
\* integer, in percentage format as value / width * 100 with one decimal and
\* a % sign, in normalized format as value / width with three decimals.
\* 123.456 on width 1000 gives 12.3%, 0.123 and 123.
C23_FormatRounding ==
    Formatted /\ call[3] = "x" /\ call[5][1] > 0 =>
       LET value == call[2]
           format == call[4]
           w == call[5][1]
           t == Val(returned)
       IN  /\ format = "pixels" =>
                 /\ t.decimals = 0 /\ t.suffix = ""
                 /\ Shows(t, value.n, value.d)
           /\ format = "percentage" =>
                 /\ t.decimals = 1 /\ t.suffix = "%"
                 /\ Shows(t, 100 * value.n, value.d * w)
           /\ format = "normalized" =>
                 /\ t.decimals = 3 /\ t.suffix = ""
                 /\ Shows(t, value.n, value.d * w)
           /\ value = Frac(123456, 1000) /\ w = 1000 =>
                 t = CASE format = "percentage" -> Text(123, 1, "%")
                       [] format = "normalized" -> Text(123, 3, "")
                       [] OTHER -> Text(123, 0, "")

\* 123.456 on width 1000 came out as 12.3%
C23_Witness ==
    /\ call = <<"formatCoordinate", Frac(123456, 1000), "x", "percentage",
                <<1000, 800>>>>
    /\ returned = Some(Text(123, 1, "%"))

\* the last call was formatCoordinatePair(point) under a format and extents
PairFormatted == call # <<>> /\ call[1] = "formatCoordinatePair"

\* the text t shows value in the format, normalised against extent
ShowsAgainst(t, format, value, extent) ==
    CASE format = "percentage" -> Shows(t, 100 * value.n, value.d * extent)
      [] format = "normalized" -> Shows(t, value.n, value.d * extent)
      [] OTHER -> Shows(t, value.n, value.d)

\* C24: formatCoordinate normalises an x-tagged value against imageWidth, a
\* y-tagged value against imageHeight and an untagged value against the
\* greater of the two; formatCoordinatePair normalises point.x against
\* imageWidth and point.y against imageHeight.
C24_AxisSelection ==
    /\ Formatted =>
          LET axis == call[3]
              w == call[5][1]
              h == call[5][2]
              extent == CASE axis = "x" -> w
                          [] axis = "y" -> h
                          [] OTHER -> IF w >= h THEN w ELSE h
          IN  extent > 0 => ShowsAgainst(Val(returned), call[4], call[2], extent)
    /\ PairFormatted /\ call[4][1] > 0 =>
          /\ ShowsAgainst(Val(returned)[1], call[3], call[2].x, call[4][1])
          /\ ShowsAgainst(Val(returned)[2], call[3], call[2].y, call[4][2])

\* the point (123.456, 300) on a 1920 x 1080 image came out as 0.064, 0.278
C24_Witness ==
    /\ call = <<"formatCoordinatePair",
                [x |-> Frac(123456, 1000), y |-> Frac(300, 1)], "normalized",
                <<1920, 1080>>>>
    /\ returned = Some(<<Text(64, 3, ""), Text(278, 3, "")>>)

\* t is a string the formatter builds: a number with its decimals and
\* suffix, or NaN or an infinity with its suffix
IsString(t) ==
    \/ /\ DOMAIN t = {"digits", "decimals", "suffix"}
       /\ t.digits \in Int /\ t.decimals \in {0, 1, 3} /\ t.suffix \in {"", "%"}
    \/ /\ DOMAIN t = {"literal", "suffix"}
       /\ t.literal \in {"NaN", "Infinity", "-Infinity"}
       /\ t.suffix \in {"", "%"}

\* C25: every call of formatCoordinate or formatCoordinatePair, for every
\* value (negative ones included), format and extents (zero included),
\* returns a string and leaves the state of the application as it was; a
\* call with the arguments of the call before it returns the same string.
C25_FormatPureAndTotal ==
    [][call'[1] \in {"formatCoordinate", "formatCoordinatePair"} =>
          /\ UNCHANGED appVars
          /\ returned' # Null
          /\ IF call'[1] = "formatCoordinate" THEN IsString(Val(returned'))
             ELSE IsString(Val(returned')[1]) /\ IsString(Val(returned')[2])
          /\ call' = call => returned' = returned]_vars

\* 0 was formatted as a percentage of an image without extents: NaN%
C25_Witness ==
    /\ call = <<"formatCoordinate", Frac(0, 1), "x", "percentage", <<0, 0>>>>
    /\ returned = Some(NonFinite(Frac(0, 1), "%"))
    /\ coordinateFormat = "pixels"

\* selected, else hovered, else default
InteractionRank(d) == IF isSelected(d) THEN 2 ELSE IF isHovered(d) THEN 1 ELSE 0

\* C26: of two detections of a render, the one in the higher interaction
\* state (selected over hovered over default) has the strictly greater
\* stroke width and the strictly greater opacity.
C26_VisualWeightOrdered ==
    overlayMounted =>
       \A d1 \in DetectionSet, d2 \in DetectionSet :
          InteractionRank(d1) > InteractionRank(d2) =>
             /\ strokeWidth(d1) > strokeWidth(d2)
             /\ opacity(d1) > opacity(d2)

\* the last call was renderBoundingBox(detection) under scale factors
Rendered == call # <<>> /\ call[1] = "renderBoundingBox"

\* the corners of the bounding box, in the order of the path
BoxCorners(d) ==
    <<[x |-> d.bbox.x1, y |-> d.bbox.y1], [x |-> d.bbox.x2, y |-> d.bbox.y1],
      [x |-> d.bbox.x2, y |-> d.bbox.y2], [x |-> d.bbox.x1, y |-> d.bbox.y2]>>

\* the vertices are not the corners of the bounding box
Malformed(d) ==
    <<d.vertices.top_left, d.vertices.top_right, d.vertices.bottom_right,
      d.vertices.bottom_left>> # BoxCorners(d)

\* C27: a detection whose vertices are inconsistent with its bounding box is
\* drawn as the axis-aligned rectangle of the bounding box x1, y1, x2, y2
\* under the scale factors, and the render returns a path.
C27_MalformedDrawnFromBox ==
    Rendered /\ Malformed(call[2]) =>
       /\ returned # Null
       /\ Val(returned) =
             [i \in 1..4 |-> toDisplaySpace(NumPoint(BoxCorners(call[2])[i]),
                                            call[3])]

\* every useState value of the overlay
OverlayState ==
    <<overlayVars, copiedCoordinate, displayDimensions, scaleFactors>>

\* C28: when a clipboard write fails, the overlay enters a notice state (some
\* state of the component changes, to be shown and to expire), starts no
\* other write, and leaves the interaction state as it was; when a write
\* succeeds, the copied indicator is the label of that copy.
C28_FailureShowsNotice ==
    [][/\ (\E i \in DOMAIN writes : WriteRejected(i)) =>
             /\ OverlayState' # OverlayState
             /\ Len(writes') < Len(writes)
             /\ UNCHANGED <<selectedDetectionId, overlayVars>>
       /\ \A i \in DOMAIN writes :
             WriteResolved(i) => copiedCoordinate' = Some(writes[i])]_vars

\* the real q is within slack / (2 * unit) of digits / unit
Near(q, digits, unit, slack) ==
    2 * Abs(q.n * unit - digits * q.d) <= slack * q.d

\* C29: once the effect has run for a 1920 x 1080 image without
\* exactDimensions, the display extents are 1067 x 600 and the scale factors
\* are 1067 / 1920 and 600 / 1080, both 0.5556 to within 0.0005; the detection
\* with bbox {100, 200, 300, 400} has its top left corner drawn at
\* (55.6, 111.1) and its center at (111.1, 166.7), to within 0.05.
C29_EndToEndScaling ==
    /\ overlayMounted /\ settled
    /\ imageWidth = 1920 /\ imageHeight = 1080 /\ ~exactDimensions
    => /\ displayDimensions = [width |-> 1067, height |-> maxHeight]
       /\ scaleFactors = [x |-> Frac(1067, 1920), y |-> Frac(600, 1080)]
       /\ Near(scaleFactors.x, 5556, 10000, 10)
       /\ Near(scaleFactors.y, 5556, 10000, 10)
       /\ \A d \in DetectionSet :
             d.bbox = [x1 |-> 100, y1 |-> 200, x2 |-> 300, y2 |-> 400] =>
                /\ Near(pathData(d, scaleFactors)[1].x, 556, 10, 1)
                /\ Near(pathData(d, scaleFactors)[1].y, 1111, 10, 1)
                /\ Near(drawnCrosshair(d).x, 1111, 10, 1)
                /\ Near(drawnCrosshair(d).y, 1667, 10, 1)

\* the 1920 x 1080 image is shown 1067 x 600 and the top left corner of the
\* detection with bbox {100, 200, 300, 400} is drawn at (5335 / 96, 1000 / 9)
C29_Witness ==
    /\ overlayMounted /\ settled
    /\ imageWidth = 1920 /\ imageHeight = 1080 /\ ~exactDimensions
    /\ displayDimensions = [width |-> 1067, height |-> 600]
    /\ \E d \in DetectionSet :
          /\ d.bbox = [x1 |-> 100, y1 |-> 200, x2 |-> 300, y2 |-> 400]
          /\ pathData(d, scaleFactors)[1] =
                [x |-> Frac(5335, 96), y |-> Frac(1000, 9)]

\* C30: while ruler mode is on, a click on a shape or on the background
\* changes neither the selected detection nor the popup; the Ruler button,
\* in either direction, changes neither the hovered detection, the selected
\* detection nor the popup.
C30_RulerOrthogonal ==
    [][/\ /\ rulerMode
          /\ \/ \E d \in Shapes, e \in MouseEvents : ClickShape(d, e)
             \/ \E e \in MouseEvents : ClickBackground(e)
          => UNCHANGED <<selectedDetectionId, coordinatePopup>>
       /\ ToggleRuler =>
             UNCHANGED <<hoveredDetection, selectedDetectionId,
                         coordinatePopup>>]_vars

\* with detection 1 selected, its popup open and detection 2 hovered, the
\* ruler was turned on and a click has placed the first point
C30_Witness ==
    /\ overlayMounted /\ ~crashed
    /\ rulerMode /\ before.rulerMode
    /\ before.rulerLen = 0 /\ Len(rulerPoints) = 1
    /\ selectedDetectionId = Some(1)
    /\ coordinatePopup # Null
    /\ hoveredDetection = Some(2)

\* C31: in every state a tooltip is shown only while a detection is hovered,
\* and within a mounted overlay hoveredDetection changes only on the pointer
\* entering a shape or leaving the surface: a move off the shape, a click or
\* any other event leaves it as it was.
C31_TooltipImpliesHover ==
    /\ [](tooltipData # Null => hoveredDetection # Null)
    /\ [][/\ overlayMounted /\ overlayMounted'
           /\ hoveredDetection' # hoveredDetection
           => \/ \E d \in Shapes : MouseEnterShape(d)
              \/ MouseLeave]_vars

\* the tooltip of detection 1 is shown while its popup is open and the
\* pointer has moved on to hover detection 2
C31_Witness ==
    /\ overlayMounted /\ ~crashed
    /\ tooltipData # Null
    /\ Val(tooltipData).detection = Some(ResultA.detections[1])
    /\ hoveredDetection = Some(2)
    /\ coordinatePopup # Null
    /\ mousePosition # Null

\* C32: the popup's close button sets the popup to null and leaves the
\* selected detection as it was; a click on a detection card selects the
\* card's detection, or deselects it when it is the selected one, and leaves
\* the popup as it was.
C32_PopupAndSelectionApart ==
    [][/\ ClosePopup =>
             /\ coordinatePopup' = Null
             /\ UNCHANGED selectedDetectionId
       /\ \A d \in Cards :
             CardClick(d) =>
                /\ selectedDetectionId' =
                      IF selectedDetectionId = Some(d.id) THEN Null
                      ELSE Some(d.id)
                /\ UNCHANGED coordinatePopup]_vars

\* the popup of detection 1 is open while detection 2 is the selected one
C32_Witness ==
    /\ overlayMounted /\ ~crashed
    /\ coordinatePopup # Null
    /\ Val(coordinatePopup).detection.id = 1
    /\ selectedDetectionId = Some(2)

\* C33: while the timer of a successful copy is pending, the copied
\* indicator holds the label of the latest such copy: the timer of an
\* earlier copy firing does not clear it.
C33_IndicatorLastsItsOwnTimer ==
    overlayMounted /\ timers # <<>> =>
       copiedCoordinate = Some(timers[Len(timers)])

\* C34: a copied indicator that is set is eventually null again; it is null
\* whenever no expiry timer is pending; and a failed write leaves it as it
\* was.
C34_IndicatorExpires ==
    /\ (copiedCoordinate # Null) ~> (copiedCoordinate = Null)
    /\ [](timers = <<>> => copiedCoordinate = Null)
    /\ [][(\E i \in DOMAIN writes : WriteRejected(i)) =>
             UNCHANGED copiedCoordinate]_vars

\* two copies have succeeded and both expiry timers are pending
C34_Witness ==
    /\ overlayMounted /\ settled
    /\ writes = <<>>
    /\ timers = <<"popup-top_left", "popup-center">>
    /\ copiedCoordinate = Some("popup-center")

\* C35: in every state detectionResults and detectionError are not both
\* present: the Detect button clears both, a response that resolves sets the
\* results only, a failure sets the error only.
C35_ResultsXorError ==
    /\ [](~(detectionResults # Null /\ detectionError # Null))
    /\ [][/\ DetectObjects =>
                detectionResults' = Null /\ detectionError' = Null
          /\ (\E results \in ResultSets : FetchResolved(results)) =>
                detectionResults' # Null /\ detectionError' = Null
          /\ (\E errorMessage \in FetchFailures : FetchFailed(errorMessage)) =>
                detectionResults' = Null /\ detectionError' # Null]_vars

\* a request that replaced rendered results has failed
C35_Witness ==
    /\ imageData # Null
    /\ ~isDetecting /\ pending = 0
    /\ detectionResults = Null
    /\ detectionError = Some("Failed to fetch")
    /\ discarded # Null

\* C36: a started detection request ends with isDetecting = FALSE whichever way
\* its fetch settles (results, a non-OK status, an error field, fetch
\* throwing), and handleDetectObjects called without an image or without
\* objects changes no state and starts no request
C36_RequestEnds ==
    /\ isDetecting ~> ~isDetecting
    /\ [][FetchSettles => pending' = pending - 1 /\ ~isDetecting']_vars
    /\ [][DetectCall => UNCHANGED uploadVars]_vars

C36_Witness ==
    /\ imageData # Null
    /\ ~isDetecting /\ pending = 0
    /\ detectionResults = Null
    /\ detectionError = Some("Detection failed: 500 Internal Server Error")

\* C37: at most one detection request is in flight: while isDetecting the
\* Detect button is disabled, a request starts only when none is pending, and
\* a response that arrives belongs to the only request there is
C37_OneRequestInFlight ==
    /\ [](pending <= 1)
    /\ [](isDetecting => ~canDetect)
    /\ []((pending > 0) = isDetecting)
    /\ [][pending' > pending => pending = 0 /\ ~isDetecting]_vars
    /\ [][FetchSettles => pending = 1 /\ pending' = 0]_vars

C37_Witness ==
    /\ imageData # Null /\ Len(objects) > 0
    /\ isDetecting /\ pending = 1
    /\ ~canDetect

\* C38: detection results belong to the loaded image: there are results only
\* while there is an image, removing the image or selecting a file clears
\* them, and the image is neither removed nor replaced while a request is in
\* flight
C38_ResultsBelongToImage ==
    /\ [](detectionResults # Null => imageData # Null)
    /\ [][RemoveImage => detectionResults' = Null]_vars
    /\ [][(\E file \in Files : FileSelect(file)) => detectionResults' = Null]_vars
    /\ [][isDetecting \/ pending > 0 => imageData' = imageData]_vars

C38_Witness ==
    /\ imageData = Null
    /\ detectionResults = Null
    /\ discarded # Null
    /\ ~isDetecting /\ pending = 0

\* the searches of a list
Searches(list) == {list[i] : i \in DOMAIN list}

\* there is no search twice in the list
NoDuplicates(list) ==
    \A i, j \in DOMAIN list : list[i] = list[j] => i = j

\* C39: after any sequence of saves the recent searches are at most 10, no
\* search string is there twice, and the search saved last is the first of
\* the list; saving an empty object list changes nothing
C39_RecentSearchesBounded ==
    /\ [](Len(recentSearches) <= 10)
    /\ [](NoDuplicates(recentSearches))
    /\ [][\A objs \in SavedObjects :
             SaveToRecentSearches(objs) =>
                IF Len(objs) = 0 THEN UNCHANGED recentSearches
                ELSE /\ Head(recentSearches') = join(objs)
                     /\ \A search \in Searches(recentSearches') :
                           search = join(objs) \/ search \in Searches(recentSearches)
            ]_vars

\* the list was full, a new search was saved and then a stored one again
C39_Witness ==
    /\ Len(recentSearches) = 10
    /\ saves = 2
    /\ recentSearches[1] = "bird"
    /\ recentSearches[2] = "cat, dog"
    /\ recentSearches[10] = "bus"

\* the health route was called
Answered ==
    call # <<>> /\ call[1] = "handler"

\* C40: the health route answers a GET with status 200 and the status field
\* 'healthy', and every other method with status 405, the status field
\* 'error' and an Allow header that lists GET alone
C40_HealthAnswers ==
    Answered =>
       LET res == Val(returned)
       IN  IF call[2] = Some("GET")
           THEN res.statusCode = 200 /\ res.body.status = "healthy"
           ELSE /\ res.statusCode = 405
                /\ res.body.status = "error"
                /\ res.Allow = Some(<<"GET">>)

C40_Witness ==
    /\ Answered
    /\ call[2] = Some("POST")
    /\ Val(returned).statusCode = 405

====
